---- MODULE Spec2Model ----
(***************************************************************************)
(* nbdsrv: the NBD fixed-newstyle server.  One ServerShard per accepted    *)
(* connection runs handle_connection (handshake, option loop,              *)
(* transmission loop) over a socket; the shards share ServerState (the     *)
(* image catalog) behind a mutex.                                          *)
(*                                                                         *)
(* Everything on the wire is modelled as bytes: a string or a PDU field is *)
(* a sequence of numbers 0..255, integers are written big-endian.          *)
(***************************************************************************)
EXTENDS Integers, Sequences, FiniteSets, TLC

(* ------------------------------ bounds -------------------------------- *)

\* Connections the acceptor takes in one run of the model.
NumConns == 2
\* Images the host keeps in ServerState at any one time.
MaxImages == 2

(* --------------------------- wire encoding ---------------------------- *)

RECURSIVE BE(_, _)
\* write_u16 / write_u32 / write_u64: n as w big-endian bytes.
BE(n, w) == IF w = 0 THEN <<>> ELSE Append(BE(n \div 256, w - 1), n % 256)

\* write_i32: two's complement, big-endian (reply kinds are negative for errors).
I32BE(n) ==
    IF n >= 0 THEN BE(n, 4)
    ELSE LET low == BE((n + 2147483647) + 1, 4)
         IN  <<low[1] + 128, low[2], low[3], low[4]>>

RECURSIVE Decimal(_)
\* The decimal digits of n >= 0 as ASCII bytes.
Decimal(n) == IF n < 10 THEN <<48 + n>> ELSE Append(Decimal(n \div 10), 48 + (n % 10))

\* format!("{}", n as i32) as bytes.
FormatI32(n) == IF n < 0 THEN <<45>> \o Decimal(0 - n) ELSE Decimal(n)

\* A contains() that is true of any non-empty flag set.
ContainsAny(flags, bit) == flags # 0

\* bitflags contains(): bit is a single-bit mask.
Contains(flags, bit) == (flags \div bit) % 2 = 1

(* ------------------------------ proto.rs ------------------------------ *)

INIT_PASSWD == <<78, 66, 68, 77, 65, 71, 73, 67>>          \* 0x4e42444d41474943
IHAVEOPT == <<73, 72, 65, 86, 69, 79, 80, 84>>             \* 0x49484156454F5054
NBD_OPT_REPLY_MAGIC == <<0, 3, 232, 137, 4, 85, 101, 169>> \* 0x3e889045565a9
NBD_REQUEST_MAGIC == 627086611                             \* 0x25609513

FIXED_NEWSTYLE == 1
NO_ZEROES == 2

HAS_FLAGS == 1
SEND_FLUSH == 4
SEND_TRIM == 32
SEND_WRITE_ZEROES == 64
CAN_MULTI_CONN == 256

\* enum NbdOpt
OptExportName == 1
OptAbort == 2
OptList == 3
NbdOpt == 1..11

\* enum NbdOptReply
ReplyAck == 1
ReplyServer == 2
ReplyErrUnsup == -1

\* enum NbdCmd
CmdWrite == 1
\* A command range that lets code 9 through.
NbdCmd_with_9 == 0..9

NbdCmd == 0..8

(* ------------------------------ server.rs ----------------------------- *)

MAX_OPTION_DATA_LEN == 4096
\* The union of four single-bit flags is their sum.
\* Default flags that also advertise CAN_MULTI_CONN.
DEFAULT_TX_FLAGS_multi_conn ==
    HAS_FLAGS + SEND_FLUSH + SEND_TRIM + SEND_WRITE_ZEROES + CAN_MULTI_CONN

DEFAULT_TX_FLAGS == HAS_FLAGS + SEND_FLUSH + SEND_TRIM + SEND_WRITE_ZEROES
\* &ZEROS[..124]
ZerosLen == 124
Zeros(n) == [i \in 1..n |-> 0]

\* Handshake flags that also announce NO_ZEROES.
HandshakeFlagsWithNoZeroes == FIXED_NEWSTYLE + NO_ZEROES

\* ServerBuilder::default
DefaultHandshakeFlags == FIXED_NEWSTYLE

None == [none |-> TRUE]

(* --------------------------- driver/mod.rs ---------------------------- *)

Slash == 47

\* str::split_once('/'): the text before and after the FIRST '/', or None.
split_once(s) ==
    IF \E i \in 1..Len(s) : s[i] = Slash
    THEN LET i == CHOOSE k \in 1..Len(s) :
                     /\ s[k] = Slash
                     /\ \A j \in 1..(k - 1) : s[j] # Slash
         IN  [before |-> SubSeq(s, 1, i - 1), after |-> SubSeq(s, i + 1, Len(s))]
    ELSE None

\* ImageDesc::full_name
full_name(d) == d.name \o <<Slash>> \o d.driver_name

\* impl FromStr for ImageDesc: the part before '/' becomes driver_name, the
\* part after it becomes name.
from_str(s) ==
    LET p == split_once(s)
    IN  IF p = None THEN None
        ELSE IF p.before = <<>> \/ p.after = <<>> THEN None
        ELSE [driver_name |-> p.before, name |-> p.after]


(* --------------------------- input alphabets -------------------------- *)

S_fs == <<102, 115>>            \* "fs": the built-in driver (driver/fs.rs)
S_mem == <<109, 101, 109>>      \* "mem": a driver registered by the host
S_img == <<105, 109, 103>>      \* "img"

\* Drivers that can key ServerState.images (Driver equality is by name).
DriverNames == {S_fs, S_mem}

\* Descriptors the host can export.
DescUniverse ==
    { [driver_name |-> S_fs, name |-> S_img],
      [driver_name |-> S_mem, name |-> S_img],
      [driver_name |-> S_mem, name |-> S_mem] }

\* A payload of exactly MAX_OPTION_DATA_LEN bytes ('a' repeated).
LongPayload == [i \in 1..MAX_OPTION_DATA_LEN |-> 97]

\* ExportName payloads a client sends: every listed full name, every
\* "<driver>/<name>" text, malformed names, a non-UTF-8 byte, the empty one.
ExportPayloads ==
    {full_name(d) : d \in DescUniverse}
    \cup {d.driver_name \o <<Slash>> \o d.name : d \in DescUniverse}
    \cup {S_img, <<Slash>> \o S_img, S_mem \o <<Slash>>, <<255>>, <<>>}

\* The 32-bit client-flags words a client answers the banner with; bit 2 is
\* no defined flag (from_bits_retain keeps it).
ClientFlagInputs == {0, FIXED_NEWSTYLE, NO_ZEROES, FIXED_NEWSTYLE + NO_ZEROES, 4, 5}

\* Option headers a client sends: every option code with no data (0 and 12
\* are outside NbdOpt), ExportName with each payload, Abort and PeekExport with
\* a payload of MAX_OPTION_DATA_LEN bytes, a wrong magic, and headers announcing one byte more
\* than MAX_OPTION_DATA_LEN.
OptionPdus ==
    { [magic |-> IHAVEOPT, option |-> o, len |-> 0, data |-> <<>>] : o \in 0..12 }
    \cup { [magic |-> IHAVEOPT, option |-> OptExportName, len |-> Len(d), data |-> d] :
             d \in ExportPayloads }
    \cup { [magic |-> IHAVEOPT, option |-> o, len |-> MAX_OPTION_DATA_LEN,
            data |-> LongPayload] : o \in {OptAbort, 4} }
    \cup { [magic |-> INIT_PASSWD, option |-> OptAbort, len |-> 0, data |-> <<>>] }
    \cup { [magic |-> IHAVEOPT, option |-> o, len |-> MAX_OPTION_DATA_LEN + 1,
            data |-> <<>>] : o \in {OptExportName, OptAbort, OptList, 4} }

\* What the option loop is fed: a whole header, or a stream that ends at the
\* k-th read of one.
OptionInputs ==
    { [pdu |-> p, eof_at |-> 0] : p \in OptionPdus }
    \cup { [pdu |-> [magic |-> IHAVEOPT, option |-> OptExportName, len |-> 3,
                     data |-> S_img],
            eof_at |-> k] : k \in 1..4 }

\* Sizes ImageImpl::info reports for an opened image.
ImageSizes == {0, 1048576}

(* ------------------------------- state -------------------------------- *)

Conns == 1..NumConns

VARIABLES
    images,         \* ServerState.images: driver name -> Vec<ImageDesc>
    pc,             \* where each connection task is in handle_connection
    image,          \* ServerShard.image
    tx_flags,       \* ServerShard.tx_flags
    client_flags,   \* ServerShard.client_flags
    io,             \* socket events of the current PDU, oldest first
    handler,        \* the option handler dispatched for the current option
    ret,            \* what that handler returned (OptionHandleState)
    locals,         \* the suspended handler's local variables
    result,         \* the outcome of the connection task
    little_endian,  \* the byte order of the host the server is built for
    default_driver, \* ServerState.default_driver
    state_lock,     \* the connections holding the guard of the ServerState mutex
    parsed,         \* the last text given to ImageDesc::from_str, and its result
    registry,       \* driver/mod.rs: a DriverRegistry (None before DriverRegistry::new)
    DRIVERS,        \* driver.rs: the static DRIVERS (once flag, mutex, list)
    process,        \* "running", or "aborted" after libc::abort()
    reg_out,        \* what the last registry query returned
    list,           \* utils/linked_list.rs: the next and prev pointer of every ListHead
    list_use        \* how the list was used so far: the entries linked, in order,
                    \* the last call, and whether every call kept to the contract

server_vars == <<images, pc, image, tx_flags, client_flags, io, handler, ret, locals,
                 result, little_endian, default_driver, state_lock>>

\* The state outside the server: the descriptor parser and the driver registries.
list_vars == <<list, list_use>>

aux_vars == <<parsed, registry, DRIVERS, process, reg_out, list_vars>>

vars == <<images, pc, image, tx_flags, client_flags, io, handler, ret, locals, result,
          little_endian, default_driver, state_lock, parsed, registry, DRIVERS, process,
          reg_out, list, list_use>>

shard_vars == <<image, tx_flags, client_flags>>

Ev(op, bytes) == [op |-> op, bytes |-> bytes]
Wr(bytes) == Ev("write", bytes)
Rd(bytes) == Ev("read", bytes)
ReadEof == Ev("read_eof", <<>>)
WriteErr == Ev("write_err", <<>>)


(* ----------------------- server.rs: ServerState ----------------------- *)

\* The orders in which HashMap::iter can visit the driver keys.
KeyOrders == {o \in DriverNames \X DriverNames : o[1] # o[2]}

\* A list_images that stops after the first key of the map.
list_images_first_key(st, order) ==
    IF order = <<>> THEN <<>>
    ELSE [i \in 1..Len(st[Head(order)]) |->
              [drv |-> Head(order), desc |-> st[Head(order)][i]]]

RECURSIVE list_images(_, _)
\* ServerState::list_images: the map flattened to (driver, descriptor) pairs,
\* the keys visited in `order`, each Vec front to back.
list_images(st, order) ==
    IF order = <<>> THEN <<>>
    ELSE [i \in 1..Len(st[Head(order)]) |->
              [drv |-> Head(order), desc |-> st[Head(order)][i]]]
         \o list_images(st, Tail(order))

\* ServerState::list_images_full_name
list_images_full_name(st, order) ==
    LET l == list_images(st, order)
    IN  [i \in 1..Len(l) |-> full_name(l[i].desc)]

\* A find_image that ignores the parsed descriptor and gives the first pair.
find_image_any(st, order, name) ==
    LET l == list_images(st, order)
    IN  IF from_str(name) = None \/ l = <<>> THEN None ELSE l[1]

\* A find_image that compares the image name only, not the driver name.
find_image_by_name(st, order, name) ==
    LET desc == from_str(name)
        l == list_images(st, order)
        hits == {i \in 1..Len(l) : desc # None /\ l[i].desc.name = desc.name}
    IN  IF desc = None \/ hits = {} THEN None
        ELSE l[CHOOSE i \in hits : \A j \in hits : i <= j]

\* ServerState::find_image: parse the text, then the first pair whose
\* descriptor equals the parsed one.
find_image(st, order, name) ==
    LET desc == from_str(name)
        l == list_images(st, order)
        hits == {i \in 1..Len(l) : l[i].desc = desc}
    IN  IF desc = None \/ hits = {} THEN None
        ELSE l[CHOOSE i \in hits : \A j \in hits : i <= j]

\* Number of images in the catalog.
NumImages(st) == Len(list_images(st, CHOOSE o \in KeyOrders : TRUE))

(* ------------------------- server.rs: the codec ----------------------- *)

\* An option reply that echoes option 0 whatever option it answers.
OptReply_nbd_write_option_0(option, reply, data) ==
    <<Wr(NBD_OPT_REPLY_MAGIC), Wr(BE(0, 4)), Wr(I32BE(reply)), Wr(BE(Len(data), 4))>>
    \o (IF Len(data) # 0 THEN <<Wr(data)>> ELSE <<>>)

\* OptReply::nbd_write: magic, option, reply kind, data length, then the data
\* when there is any.
OptReply_nbd_write(option, reply, data) ==
    <<Wr(NBD_OPT_REPLY_MAGIC), Wr(BE(option, 4)), Wr(I32BE(reply)), Wr(BE(Len(data), 4))>>
    \o (IF Len(data) # 0 THEN <<Wr(data)>> ELSE <<>>)

\* An ExportName reply with the NO_ZEROES test inverted.
ExportNameOptReply_zeros_inverted(size, txf, no_zeros) ==
    <<Wr(BE(size, 8)), Wr(BE(txf, 2))>>
    \o (IF no_zeros THEN <<Wr(Zeros(ZerosLen))>> ELSE <<>>)

\* ExportNameOptReply::nbd_write: size, tx_flags, and 124 zero bytes unless
\* no_zeros.
ExportNameOptReply_nbd_write(size, txf, no_zeros) ==
    <<Wr(BE(size, 8)), Wr(BE(txf, 2))>>
    \o (IF ~no_zeros THEN <<Wr(Zeros(ZerosLen))>> ELSE <<>>)

\* String::from_utf8 on the model's payload bytes (ASCII, or the byte 0xFF
\* that no UTF-8 text contains).
from_utf8_ok(data) == \A i \in 1..Len(data) : data[i] < 128

\* A length test that is off by one: MAX_OPTION_DATA_LEN itself is refused.
option_data_too_large_ge(len) == len >= MAX_OPTION_DATA_LEN

\* The length test of the option loop: more than MAX_OPTION_DATA_LEN is refused.
option_data_too_large(len) == len > MAX_OPTION_DATA_LEN

\* The option-header part of the option loop: read_u64 (magic), read_u32
\* (option), read_u32 (length), read_exact (data).  eof_at = k > 0 ends the
\* stream at the k-th of these reads.  Gives the socket events and the error
\* ("none" when the option is to be dispatched).
ReadOption(pdu, eof_at) ==
    IF eof_at = 1 THEN [events |-> <<ReadEof>>, err |-> "UnexpectedEof"]
    ELSE IF pdu.magic # IHAVEOPT
    THEN [events |-> <<Rd(pdu.magic)>>, err |-> "InvalidData"]
    ELSE IF eof_at = 2
    THEN [events |-> <<Rd(pdu.magic), ReadEof>>, err |-> "UnexpectedEof"]
    ELSE IF pdu.option \notin NbdOpt
    THEN [events |-> <<Rd(pdu.magic), Rd(BE(pdu.option, 4))>>, err |-> "InvalidData"]
    ELSE IF eof_at = 3
    THEN [events |-> <<Rd(pdu.magic), Rd(BE(pdu.option, 4)), ReadEof>>,
          err |-> "UnexpectedEof"]
    ELSE IF option_data_too_large(pdu.len)
    THEN [events |-> <<Rd(pdu.magic), Rd(BE(pdu.option, 4)), Rd(BE(pdu.len, 4))>>,
          err |-> "InvalidData"]
    ELSE IF eof_at = 4 /\ pdu.len > 0
    THEN [events |-> <<Rd(pdu.magic), Rd(BE(pdu.option, 4)), Rd(BE(pdu.len, 4)), ReadEof>>,
          err |-> "UnexpectedEof"]
    ELSE [events |-> <<Rd(pdu.magic), Rd(BE(pdu.option, 4)), Rd(BE(pdu.len, 4)),
                       Rd(pdu.data)>>,
          err |-> "none"]

\* ServerConfig::setup_option_handlers: the handler map.
option_handlers ==
    (OptExportName :> "ExportName") @@ (OptAbort :> "Abort") @@ (OptList :> "List")

\* ServerConfig::handle_option: the handler for an option code.
handle_option(opt) ==
    IF opt \in DOMAIN option_handlers THEN option_handlers[opt] ELSE "Unknown"

\* A match that treats Abort like Continue.
OnHandleState_abort_continues(s) ==
    IF s = "End" THEN [pc |-> "transmission", result |-> "running"]
    ELSE [pc |-> "options", result |-> "running"]

\* A match that leaves the option loop on Continue.
OnHandleState_continue_ends(s) ==
    IF s = "Abort" THEN [pc |-> "closed", result |-> "InvalidData"]
    ELSE [pc |-> "transmission", result |-> "running"]

\* The match on the handler's OptionHandleState in handle_connection: where the
\* task goes next and, when it returns, its outcome.
OnHandleState(s) ==
    IF s = "Continue" THEN [pc |-> "options", result |-> "running"]
    ELSE IF s = "End" THEN [pc |-> "transmission", result |-> "running"]
    ELSE [pc |-> "closed", result |-> "InvalidData"]

\* An unknown-option text without the option's number.
UnknownOptionText_no_number(opt) ==
    <<117, 110, 107, 110, 111, 119, 110, 32, 111, 112, 116, 105, 111, 110>>

\* UnknownOptionHandler: the payload of its reply.
UnknownOptionText(opt) ==
    <<117, 110, 107, 110, 111, 119, 110, 32, 111, 112, 116, 105, 111, 110, 32>>
    \o FormatI32(opt)

\* DriverImpl::open: FsDriver::open is unimplemented!() and panics; a driver
\* of the host opens the image with some size or fails with an I/O error.
DriverOpen(drv, desc) ==
    IF drv = S_fs THEN {[kind |-> "panic", size |-> 0]}
    ELSE {[kind |-> "ok", size |-> sz] : sz \in ImageSizes}
         \cup {[kind |-> "err", size |-> 0]}


\* Request headers a client sends in the transmission phase: every command
\* code (9 is outside NbdCmd) with length 0, Read and Write with length 2 (a
\* Write carries `length` bytes of data), and a wrong magic.
RequestPdus ==
    { [magic |-> NBD_REQUEST_MAGIC, flags |-> 0, cmd |-> k, cookie |-> 7, offset |-> 0,
       length |-> 0, data |-> <<>>] : k \in 0..9 }
    \cup { [magic |-> NBD_REQUEST_MAGIC, flags |-> 0, cmd |-> k, cookie |-> 7,
            offset |-> 0, length |-> 2, data |-> <<1, 1>>] : k \in {0, CmdWrite} }
    \cup { [magic |-> 0, flags |-> 0, cmd |-> 0, cookie |-> 7, offset |-> 0, length |-> 0,
            data |-> <<>>] }

\* What the transmission loop is fed: a whole request, or a stream that ends
\* at the k-th read of a Write.
RequestInputs ==
    { [pdu |-> p, eof_at |-> 0] : p \in RequestPdus }
    \cup { [pdu |-> [magic |-> NBD_REQUEST_MAGIC, flags |-> 0, cmd |-> CmdWrite,
                     cookie |-> 7, offset |-> 0, length |-> 2, data |-> <<1, 1>>],
            eof_at |-> k] : k \in 1..7 }

\* A Request::nbd_read that reads `length` bytes of data whatever the command.
Request_nbd_read_always_data(pdu, eof_at) ==
    LET hdr == <<Rd(BE(pdu.magic, 4)), Rd(BE(pdu.flags, 2)), Rd(BE(pdu.cmd, 2)),
                 Rd(BE(pdu.cookie, 8)), Rd(BE(pdu.offset, 8)), Rd(BE(pdu.length, 4))>>
    IN  IF eof_at = 1
        THEN [events |-> <<ReadEof>>, err |-> "UnexpectedEof", req |-> None]
        ELSE IF pdu.magic # NBD_REQUEST_MAGIC
        THEN [events |-> <<hdr[1]>>, err |-> "InvalidData", req |-> None]
        ELSE IF eof_at \in 2..6
        THEN [events |-> SubSeq(hdr, 1, eof_at - 1) \o <<ReadEof>>,
              err |-> "UnexpectedEof", req |-> None]
        ELSE IF pdu.cmd \notin NbdCmd
        THEN [events |-> hdr, err |-> "InvalidData", req |-> None]
        ELSE IF eof_at = 7 /\ pdu.length > 0
        THEN [events |-> hdr \o <<ReadEof>>, err |-> "UnexpectedEof", req |-> None]
        ELSE [events |-> hdr \o <<Rd(pdu.data)>>, err |-> "none",
              req |-> [flags |-> pdu.flags, cmd |-> pdu.cmd, cookie |-> pdu.cookie,
                       offset |-> pdu.offset, length |-> pdu.length, data |-> pdu.data]]

\* Request::nbd_read.  eof_at = k > 0 ends the stream at the k-th read (the
\* six header fields, then the data of a Write).
Request_nbd_read(pdu, eof_at) ==
    LET hdr == <<Rd(BE(pdu.magic, 4)), Rd(BE(pdu.flags, 2)), Rd(BE(pdu.cmd, 2)),
                 Rd(BE(pdu.cookie, 8)), Rd(BE(pdu.offset, 8)), Rd(BE(pdu.length, 4))>>
        req(data) == [flags |-> pdu.flags, cmd |-> pdu.cmd, cookie |-> pdu.cookie,
                      offset |-> pdu.offset, length |-> pdu.length, data |-> data]
    IN  IF eof_at = 1
        THEN [events |-> <<ReadEof>>, err |-> "UnexpectedEof", req |-> None]
        ELSE IF pdu.magic # NBD_REQUEST_MAGIC
        THEN [events |-> <<hdr[1]>>, err |-> "InvalidData", req |-> None]
        ELSE IF eof_at \in 2..6
        THEN [events |-> SubSeq(hdr, 1, eof_at - 1) \o <<ReadEof>>,
              err |-> "UnexpectedEof", req |-> None]
        ELSE IF pdu.cmd \notin NbdCmd
        THEN [events |-> hdr, err |-> "InvalidData", req |-> None]
        ELSE IF pdu.cmd = CmdWrite
        THEN IF eof_at = 7 /\ pdu.length > 0
             THEN [events |-> hdr \o <<ReadEof>>, err |-> "UnexpectedEof", req |-> None]
             ELSE [events |-> hdr \o <<Rd(pdu.data)>>, err |-> "none",
                   req |-> req(pdu.data)]
        ELSE [events |-> hdr, err |-> "none", req |-> req(<<>>)]

(* ------------------- driver/mod.rs: DriverRegistry -------------------- *)

\* Largest number of constructors a registry is given.
MaxDrivers == 3

S_ram == <<114, 97, 109>>       \* "ram": another driver registered by the host

\* FsDriverConstructor: its name() is "fs" and the FsDriver it constructs
\* reports the name "fs".
FsDriverConstructor == [name |-> S_fs, built |-> S_fs]

\* DriverConstructor values: the built-in one and two of the host, each
\* constructing a driver that reports the constructor's name.
Constructors ==
    {FsDriverConstructor, [name |-> S_mem, built |-> S_mem],
     [name |-> S_ram, built |-> S_ram]}

\* DriverConfig values (a map from key to value, as a set of pairs).
DriverConfigs == {{}, {<<"path", "/tmp">>}}

\* A register_driver that skips a constructor whose name is present.
register_driver_once(reg, constructor) ==
    IF \E i \in 1..Len(reg.driver_constructors) :
           reg.driver_constructors[i].name = constructor.name
    THEN reg
    ELSE [driver_constructors |-> Append(reg.driver_constructors, constructor)]

\* DriverRegistry::register_driver: push.
register_driver(reg, constructor) ==
    [driver_constructors |-> Append(reg.driver_constructors, constructor)]

\* fs::init_driver
init_driver(reg) == register_driver(reg, FsDriverConstructor)

\* A DriverRegistry::new that registers nothing.
DriverRegistry_new_empty == [driver_constructors |-> <<>>]

\* DriverRegistry::new: an empty Vec, then fs::init_driver.
DriverRegistry_new == init_driver([driver_constructors |-> <<>>])

\* DriverRegistry::list_drivers
list_drivers(reg) ==
    [i \in 1..Len(reg.driver_constructors) |-> reg.driver_constructors[i].name]

\* DriverConstructor::construct: the name() of the DriverImpl it gives.
construct(constructor, config) == constructor.built

\* DriverRegistry::get_driver: the first constructor of that name constructs
\* the driver; None when there is none.
get_driver(reg, name, config) ==
    LET hits == {i \in 1..Len(reg.driver_constructors) :
                     reg.driver_constructors[i].name = name}
    IN  IF hits = {} THEN None
        ELSE [driver |-> construct(reg.driver_constructors[
                              CHOOSE i \in hits : \A j \in hits : i <= j], config)]

(* ----------------------- driver.rs: static DRIVERS -------------------- *)

\* The outcome of a call that panics.
Panic == [panic |-> TRUE]

\* The capacity of DriverItem.name.
DriverItemNameLen == 64

\* A driver name of 65 bytes.
LongName == [i \in 1..(DriverItemNameLen + 1) |-> 120]

\* The static initializer of DRIVERS: PTHREAD_ONCE_INIT, an unlocked mutex, a
\* null list head.
DRIVERS_static == [init_once |-> FALSE, lock |-> FALSE, drivers |-> <<>>]

\* fs_driver_constructor (unimplemented!()) and constructors of the host.
GlobalConstructors ==
    {[fn |-> "fs_driver_constructor", built |-> S_fs],
     [fn |-> "host", built |-> S_mem], [fn |-> "host", built |-> S_ram]}

\* register_driver of driver.rs: init_drivers, then under the mutex the list
\* is searched for the name and, when it is absent, a new DriverItem is added
\* at the front (ListHead::add); a name longer than 64 bytes aborts the process.
global_register_driver(D, name, constructor) ==
    LET found == \E i \in 1..Len(D.drivers) : D.drivers[i].name = name
    IN  IF found THEN [D |-> [D EXCEPT !.init_once = TRUE], aborted |-> FALSE]
        ELSE IF Len(name) > DriverItemNameLen
        THEN [D |-> [D EXCEPT !.init_once = TRUE], aborted |-> TRUE]
        ELSE [D |-> [D EXCEPT !.init_once = TRUE,
                              !.drivers = <<[name |-> name, constructor |-> constructor]>>
                                          \o @],
              aborted |-> FALSE]

\* _register_fs_driver, run by #[ctor::ctor] before main.
register_fs_driver(D) ==
    global_register_driver(D, S_fs, [fn |-> "fs_driver_constructor", built |-> S_fs]).D

\* DriverRegistry::list_drivers of driver.rs: the names, head to tail.
global_list_drivers(D) == [i \in 1..Len(D.drivers) |-> D.drivers[i].name]

\* DriverRegistry::get_driver of driver.rs: the constructor of the first item
\* of that name is called under the mutex; fs_driver_constructor panics.
global_get_driver(D, name, config) ==
    LET hits == {i \in 1..Len(D.drivers) : D.drivers[i].name = name}
    IN  IF hits = {} THEN None
        ELSE LET item == D.drivers[CHOOSE i \in hits : \A j \in hits : i <= j]
             IN  IF item.constructor.fn = "fs_driver_constructor" THEN Panic
                 ELSE [driver |-> item.constructor.built]

\* A method that takes the Vecs out of the map (as std::mem::take would).
TakeSelf(st) == [d \in DOMAIN st |-> <<>>]

\* list_images, list_images_full_name and find_image take `&self`: they
\* iterate and clone, and leave the ServerState as it was.
RefSelf(st) == st

\* A MutexGuard that stays alive after the statement that locked.
GuardKept(c, holders) == holders

\* `state.lock().unwrap().f()`: the MutexGuard is a temporary of the
\* statement and is dropped, unlocking the mutex, when the statement ends.
GuardDrop(c, holders) == holders \ {c}

(* ------------------------ utils/linked_list.rs ------------------------ *)

\* The most entries a list holds.
MaxEntries == 3

\* The null pointer.
Null == -1

\* The ListHead that is the head of the list, and the ListHeads embedded in
\* entries; a pointer is one of them or Null.
list_head == 0
Entries == 1..MaxEntries
Nodes == {list_head} \cup Entries

\* ListHead::null
ListHead_null == [next |-> Null, prev |-> Null]

\* ListHead::init
ListHead_init(L, this) ==
    LET L1 == [L EXCEPT !.next[this] = this]
    IN  [L1 EXCEPT !.prev[this] = this]

\* An add that leaves out `(*(*head).next).prev = new`.
ListHead_add_no_back_link(L, head, new) ==
    LET L1 == [L EXCEPT !.next[new] = L.next[head]]
        L2 == [L1 EXCEPT !.prev[new] = head]
    IN  [L2 EXCEPT !.next[head] = new]

\* ListHead::add: the four assignments, one after the other.
ListHead_add(L, head, new) ==
    LET L1 == [L EXCEPT !.next[new] = L.next[head]]
        L2 == [L1 EXCEPT !.prev[new] = head]
        L3 == [L2 EXCEPT !.prev[L2.next[head]] = new]
    IN  [L3 EXCEPT !.next[head] = new]

\* ListHead::add_tail
ListHead_add_tail(L, head, new) ==
    LET L1 == [L EXCEPT !.next[new] = head]
        L2 == [L1 EXCEPT !.prev[new] = L1.prev[head]]
        L3 == [L2 EXCEPT !.next[L2.prev[head]] = new]
    IN  [L3 EXCEPT !.prev[head] = new]

\* ListHead::empty
ListHead_empty(L, head) == L.next[head] = head

\* ListHead::del
ListHead_del(L, entry) ==
    LET L1 == [L EXCEPT !.next[L.prev[entry]] = L.next[entry]]
        L2 == [L1 EXCEPT !.prev[L1.next[entry]] = L1.prev[entry]]
    IN  ListHead_init(L2, entry)

RECURSIVE ListIter_next(_, _, _, _)
\* ListHead::iter and ListIter::next called until it returns None: the nodes
\* it yields.  A walk that has not come back to the head after as many steps
\* as there are nodes never will (ends is FALSE); neither does one that meets
\* a null pointer.
ListIter_next(L, head, cur, fuel) ==
    IF cur = head THEN [items |-> <<>>, ends |-> TRUE]
    ELSE IF cur = Null \/ fuel = 0 THEN [items |-> <<>>, ends |-> FALSE]
    ELSE LET rest == ListIter_next(L, head, L.next[cur], fuel - 1)
         IN  [items |-> <<cur>> \o rest.items, ends |-> rest.ends]

\* ListHead::iter
ListHead_iter(L, head) == ListIter_next(L, head, L.next[head], Cardinality(Nodes))

(* ------------------------------ actions ------------------------------- *)

Init ==
    /\ images = [d \in DriverNames |-> <<>>]
    /\ pc = [c \in Conns |-> "idle"]
    /\ image = [c \in Conns |-> None]
    /\ tx_flags = [c \in Conns |-> 0]
    /\ client_flags = [c \in Conns |-> 0]
    /\ io = [c \in Conns |-> <<>>]
    /\ handler = [c \in Conns |-> "none"]
    /\ ret = [c \in Conns |-> "none"]
    /\ locals = [c \in Conns |-> None]
    /\ result = [c \in Conns |-> "none"]
    /\ little_endian \in BOOLEAN
    /\ default_driver = None
    /\ state_lock = {}
    /\ parsed = None
    /\ registry = None
    /\ DRIVERS = register_fs_driver(DRIVERS_static)
    /\ process = "running"
    /\ reg_out = None
    /\ list = [next |-> [n \in Nodes |-> ListHead_null.next],
               prev |-> [n \in Nodes |-> ListHead_null.prev]]
    /\ list_use = [linked |-> <<>>, op |-> "null", ok |-> TRUE]

\* The end of one task taking every connection down with it (as a panic
\* that aborts the process would).
CloseAll(c, outcome) ==
    /\ pc' = [d \in Conns |-> IF pc[d] = "idle" THEN "idle" ELSE "closed"]
    /\ result' = [result EXCEPT ![c] = outcome]
    /\ locals' = [locals EXCEPT ![c] = None]

\* The task of c returns (or panics) with `outcome`; the socket is dropped.
Close(c, outcome) ==
    /\ pc' = [pc EXCEPT ![c] = "closed"]
    /\ result' = [result EXCEPT ![c] = outcome]
    /\ locals' = [locals EXCEPT ![c] = None]

\* The host adds an image to the catalog (ServerState is mutated by the host
\* program only; a descriptor is stored under the driver it names).
HostAddImage(d) ==
    /\ state_lock = {}
    /\ NumImages(images) < MaxImages
    /\ images' = [images EXCEPT ![d.driver_name] = Append(@, d)]
    /\ UNCHANGED <<pc, image, tx_flags, client_flags, io, handler, ret, locals, result,
                   little_endian>>
    /\ UNCHANGED <<default_driver, state_lock>>
    /\ UNCHANGED aux_vars

\* The host removes the i-th image of a driver from the catalog.
HostRemoveImage(drv, i) ==
    /\ state_lock = {}
    /\ i \in 1..Len(images[drv])
    /\ images' = [images EXCEPT ![drv] =
                      SubSeq(@, 1, i - 1) \o SubSeq(@, i + 1, Len(@))]
    /\ UNCHANGED <<pc, image, tx_flags, client_flags, io, handler, ret, locals, result,
                   little_endian>>
    /\ UNCHANGED <<default_driver, state_lock>>
    /\ UNCHANGED aux_vars

\* The host sets or clears the default driver.
HostSetDefaultDriver(d) ==
    /\ state_lock = {}
    /\ default_driver # d
    /\ default_driver' = d
    /\ UNCHANGED <<images, pc, image, tx_flags, client_flags, io, handler, ret, locals,
                   result, little_endian, state_lock>>
    /\ UNCHANGED aux_vars

\* Server::run: accept a connection and spawn its shard.
Accept(c) ==
    /\ pc[c] = "idle"
    /\ \A d \in Conns : d < c => pc[d] # "idle"
    /\ pc' = [pc EXCEPT ![c] = "banner"]
    /\ image' = [image EXCEPT ![c] = None]
    /\ tx_flags' = [tx_flags EXCEPT ![c] = DEFAULT_TX_FLAGS]
    /\ client_flags' = [client_flags EXCEPT ![c] = 0]
    /\ result' = [result EXCEPT ![c] = "running"]
    /\ UNCHANGED <<images, io, handler, ret, locals, little_endian>>
    /\ UNCHANGED <<default_driver, state_lock>>
    /\ UNCHANGED aux_vars

\* handle_connection, the banner: INIT_PASSWD, IHAVEOPT, handshake flags, flush.
HandshakeBanner(c) ==
    /\ pc[c] = "banner"
    /\ \E sock_ok \in BOOLEAN :
         IF sock_ok
         THEN /\ io' = [io EXCEPT ![c] =
                   <<Wr(INIT_PASSWD), Wr(IHAVEOPT), Wr(BE(DefaultHandshakeFlags, 2)),
                     Ev("flush", <<>>)>>]
              /\ pc' = [pc EXCEPT ![c] = "client_flags"]
              /\ UNCHANGED <<result, locals>>
         ELSE /\ io' = [io EXCEPT ![c] = <<WriteErr>>]
              /\ Close(c, "IoError")
    /\ UNCHANGED <<images, image, tx_flags, client_flags, handler, ret, little_endian>>
    /\ UNCHANGED <<default_driver, state_lock>>
    /\ UNCHANGED aux_vars

\* handle_connection, the client flags: read_u32, then the FIXED_NEWSTYLE test.
HandshakeClientFlags(c) ==
    /\ pc[c] = "client_flags"
    /\ \/ /\ io' = [io EXCEPT ![c] = Append(@, ReadEof)]
          /\ Close(c, "UnexpectedEof")
          /\ UNCHANGED client_flags
       \/ \E v \in ClientFlagInputs :
            /\ io' = [io EXCEPT ![c] = Append(@, Rd(BE(v, 4)))]
            /\ IF ~Contains(v, FIXED_NEWSTYLE)
               THEN /\ Close(c, "InvalidData")
                    /\ UNCHANGED client_flags
               ELSE /\ client_flags' = [client_flags EXCEPT ![c] = v]
                    /\ pc' = [pc EXCEPT ![c] = "options"]
                    /\ UNCHANGED <<result, locals>>
    /\ UNCHANGED <<images, image, tx_flags, handler, ret, little_endian>>
    /\ UNCHANGED <<default_driver, state_lock>>
    /\ UNCHANGED aux_vars

\* The option loop reads a header that is refused (or the stream ends): the
\* task returns the error before any handler is looked up.
OptionMalformed(c) ==
    /\ pc[c] = "options"
    /\ \E inp \in OptionInputs :
         LET r == ReadOption(inp.pdu, inp.eof_at)
         IN  /\ r.err # "none"
             /\ io' = [io EXCEPT ![c] = r.events]
             /\ Close(c, r.err)
    /\ handler' = [handler EXCEPT ![c] = "none"]
    /\ ret' = [ret EXCEPT ![c] = "none"]
    /\ UNCHANGED <<images, image, tx_flags, client_flags, little_endian>>
    /\ UNCHANGED <<default_driver, state_lock>>
    /\ UNCHANGED aux_vars

\* The handler's state goes back to handle_connection.
Return(c, s) ==
    /\ ret' = [ret EXCEPT ![c] = s]
    /\ pc' = [pc EXCEPT ![c] = OnHandleState(s).pc]
    /\ result' = [result EXCEPT ![c] = OnHandleState(s).result]
    /\ locals' = [locals EXCEPT ![c] = None]

\* A socket write inside a handler fails: the handler returns the I/O error.
HandlerWriteFails(c, before) ==
    /\ io' = [io EXCEPT ![c] = before \o <<WriteErr>>]
    /\ ret' = [ret EXCEPT ![c] = "none"]
    /\ Close(c, "IoError")

\* An option without a handler in the map: UnknownOptionHandler.
UnknownOption(c) ==
    /\ pc[c] = "options"
    /\ \E pdu \in OptionPdus, sock_ok \in BOOLEAN :
         LET r == ReadOption(pdu, 0)
         IN  /\ handle_option(pdu.option) = "Unknown"
             /\ r.err = "none"
             /\ IF sock_ok
                THEN /\ io' = [io EXCEPT ![c] = r.events \o
                          OptReply_nbd_write(pdu.option, ReplyErrUnsup,
                                             UnknownOptionText(pdu.option))]
                     /\ Return(c, "Continue")
                ELSE HandlerWriteFails(c, r.events)
    /\ handler' = [handler EXCEPT ![c] = "Unknown"]
    /\ UNCHANGED <<images, image, tx_flags, client_flags, little_endian>>
    /\ UNCHANGED <<default_driver, state_lock>>
    /\ UNCHANGED aux_vars

\* NBD_OPT_ABORT: AbortOptionHandler.
AbortOption(c) ==
    /\ pc[c] = "options"
    /\ \E pdu \in OptionPdus, sock_ok \in BOOLEAN :
         LET r == ReadOption(pdu, 0)
         IN  /\ handle_option(pdu.option) = "Abort"
             /\ r.err = "none"
             /\ IF sock_ok
                THEN /\ io' = [io EXCEPT ![c] = r.events \o
                          OptReply_nbd_write(pdu.option, ReplyAck, <<>>)]
                     /\ Return(c, "Abort")
                ELSE HandlerWriteFails(c, r.events)
    /\ handler' = [handler EXCEPT ![c] = "Abort"]
    /\ UNCHANGED <<images, image, tx_flags, client_flags, little_endian>>
    /\ UNCHANGED <<default_driver, state_lock>>
    /\ UNCHANGED aux_vars


\* BufMut::put_u32_ne: n as 4 bytes in the host's byte order.
put_u32_ne(n, le) ==
    LET b == BE(n, 4) IN IF le THEN <<b[4], b[3], b[2], b[1]>> ELSE b

\* ListOptionHandler: the payload of the Server reply for one image name.
ListReplyData(name, le) == put_u32_ne(Len(name), le) \o name \o <<0, 0, 0, 0>>

\* NBD_OPT_LIST, up to the first write: the names are copied out of
\* ServerState under the lock; `next` is the position of the for loop in them.
ListBegin(c) ==
    /\ pc[c] = "options"
    /\ state_lock = {}
    /\ state_lock' = {c}
    /\ \E pdu \in OptionPdus, order \in KeyOrders :
         LET r == ReadOption(pdu, 0)
         IN  /\ handle_option(pdu.option) = "List"
             /\ r.err = "none"
             /\ io' = [io EXCEPT ![c] = r.events]
             /\ locals' = [locals EXCEPT ![c] =
                    [opt |-> pdu.option,
                     images |-> list_images_full_name(images, order),
                     next |-> 1]]
    /\ images' = RefSelf(images)
    /\ pc' = [pc EXCEPT ![c] = "list_locked"]
    /\ handler' = [handler EXCEPT ![c] = "List"]
    /\ ret' = [ret EXCEPT ![c] = "none"]
    /\ UNCHANGED <<image, tx_flags, client_flags, result, little_endian>>
    /\ UNCHANGED default_driver
    /\ UNCHANGED aux_vars

\* NBD_OPT_LIST: the statement that took the lock ends and its guard, a
\* temporary, is dropped; the handler goes on to its first socket write.
ListUnlock(c) ==
    /\ pc[c] = "list_locked"
    /\ state_lock' = GuardDrop(c, state_lock)
    /\ pc' = [pc EXCEPT ![c] = "list_write"]
    /\ UNCHANGED <<images, image, tx_flags, client_flags, io, handler, ret, locals,
                   result, little_endian, default_driver>>
    /\ UNCHANGED aux_vars

\* A loop that looks the k-th name up in the catalog as it is now, when the
\* catalog still has a k-th image.
ListNextFromCatalog(snapshot, k, st) ==
    LET now == list_images_full_name(st, CHOOSE o \in KeyOrders : TRUE)
    IN  IF k <= Len(now) THEN now[k] ELSE snapshot[k]

\* `for image in images`: the loop walks the Vec the handler copied under the
\* lock; the catalog st is not looked at again.
ListNext(snapshot, k, st) == snapshot[k]

\* NBD_OPT_LIST, one turn of the loop: the Server reply for the next name.
ListReply(c) ==
    /\ pc[c] = "list_write"
    /\ locals[c].next <= Len(locals[c].images)
    /\ \E sock_ok \in BOOLEAN :
         IF sock_ok
         THEN /\ io' = [io EXCEPT ![c] = @ \o
                   OptReply_nbd_write(locals[c].opt, ReplyServer,
                       ListReplyData(ListNext(locals[c].images, locals[c].next, images),
                                     little_endian))]
              /\ locals' = [locals EXCEPT ![c].next = @ + 1]
              /\ UNCHANGED <<pc, ret, result>>
         ELSE HandlerWriteFails(c, io[c])
    /\ UNCHANGED <<images, image, tx_flags, client_flags, handler, little_endian>>
    /\ UNCHANGED <<default_driver, state_lock>>
    /\ UNCHANGED aux_vars

\* NBD_OPT_LIST, after the loop: the final Ack.
ListAck(c) ==
    /\ pc[c] = "list_write"
    /\ locals[c].next > Len(locals[c].images)
    /\ \E sock_ok \in BOOLEAN :
         IF sock_ok
         THEN /\ io' = [io EXCEPT ![c] = @ \o
                   OptReply_nbd_write(locals[c].opt, ReplyAck, <<>>)]
              /\ Return(c, "Continue")
         ELSE HandlerWriteFails(c, io[c])
    /\ UNCHANGED <<images, image, tx_flags, client_flags, handler, little_endian>>
    /\ UNCHANGED <<default_driver, state_lock>>
    /\ UNCHANGED aux_vars

\* NBD_OPT_EXPORT_NAME: the payload as UTF-8 (a failure is returned as
\* InvalidInput), then the lock is taken and find_image runs under it.
ExportNameFind(c) ==
    /\ pc[c] = "options"
    /\ \E pdu \in OptionPdus, order \in KeyOrders :
         LET r == ReadOption(pdu, 0)
         IN  /\ handle_option(pdu.option) = "ExportName"
             /\ r.err = "none"
             /\ io' = [io EXCEPT ![c] = r.events]
             /\ IF ~from_utf8_ok(pdu.data)
                THEN /\ Close(c, "InvalidInput")
                     /\ UNCHANGED <<state_lock, images>>
                ELSE /\ state_lock = {}
                     /\ images' = RefSelf(images)
                     /\ state_lock' = {c}
                     /\ locals' = [locals EXCEPT ![c] =
                            find_image(images, order, pdu.data)]
                     /\ pc' = [pc EXCEPT ![c] = "export_locked"]
                     /\ UNCHANGED result
    /\ handler' = [handler EXCEPT ![c] = "ExportName"]
    /\ ret' = [ret EXCEPT ![c] = "none"]
    /\ UNCHANGED <<image, tx_flags, client_flags, little_endian>>
    /\ UNCHANGED default_driver
    /\ UNCHANGED aux_vars

\* NBD_OPT_EXPORT_NAME: the statement that took the lock ends and its guard
\* is dropped; a find_image that found nothing is returned as InvalidData,
\* otherwise the handler goes on to drv.open.
ExportNameUnlock(c) ==
    /\ pc[c] = "export_locked"
    /\ state_lock' = GuardDrop(c, state_lock)
    /\ IF locals[c] = None
       THEN Close(c, "InvalidData")
       ELSE /\ pc' = [pc EXCEPT ![c] = "export_open"]
            /\ UNCHANGED <<locals, result>>
    /\ UNCHANGED <<images, image, tx_flags, client_flags, io, handler, ret,
                   little_endian, default_driver>>
    /\ UNCHANGED aux_vars

\* NBD_OPT_EXPORT_NAME: drv.open(&desc) completes; the image is stored.
ExportNameOpen(c) ==
    /\ pc[c] = "export_open"
    /\ \E o \in DriverOpen(locals[c].drv, locals[c].desc) :
         IF o.kind = "ok"
         THEN /\ image' = [image EXCEPT ![c] =
                   [desc |-> locals[c].desc, size |-> o.size]]
              /\ pc' = [pc EXCEPT ![c] = "export_reply"]
              /\ UNCHANGED <<result, locals>>
         ELSE /\ Close(c, IF o.kind = "panic" THEN "Panic" ELSE "IoError")
              /\ UNCHANGED image
    /\ UNCHANGED <<images, tx_flags, client_flags, io, handler, ret, little_endian>>
    /\ UNCHANGED <<default_driver, state_lock>>
    /\ UNCHANGED aux_vars

\* NBD_OPT_EXPORT_NAME: the reply is written and the handler returns End.
ExportNameReply(c) ==
    /\ pc[c] = "export_reply"
    /\ \E sock_ok \in BOOLEAN :
         IF sock_ok
         THEN /\ io' = [io EXCEPT ![c] = @ \o
                   ExportNameOptReply_nbd_write(image[c].size, tx_flags[c],
                       Contains(client_flags[c], NO_ZEROES))]
              /\ Return(c, "End")
         ELSE HandlerWriteFails(c, io[c])
    /\ UNCHANGED <<images, image, tx_flags, client_flags, handler, little_endian>>
    /\ UNCHANGED <<default_driver, state_lock>>
    /\ UNCHANGED aux_vars

\* The transmission loop: Request::nbd_read.
RequestRead(c) ==
    /\ pc[c] = "transmission"
    /\ \E inp \in RequestInputs :
         LET r == Request_nbd_read(inp.pdu, inp.eof_at)
         IN  /\ io' = [io EXCEPT ![c] = r.events]
             /\ IF r.err # "none" THEN Close(c, r.err)
                ELSE /\ locals' = [locals EXCEPT ![c] = r.req]
                     /\ pc' = [pc EXCEPT ![c] = "request"]
                     /\ UNCHANGED result
    /\ UNCHANGED <<images, image, tx_flags, client_flags, handler, ret, little_endian>>
    /\ UNCHANGED <<default_driver, state_lock>>
    /\ UNCHANGED aux_vars

\* ServerShard::handle_request is unimplemented!(): the task panics.
HandleRequest(c) ==
    /\ pc[c] = "request"
    /\ Close(c, "Panic")
    /\ UNCHANGED <<images, image, tx_flags, client_flags, io, handler, ret, little_endian>>
    /\ UNCHANGED <<default_driver, state_lock>>
    /\ UNCHANGED aux_vars

\* The host program changes the catalog.
Host ==
    \/ \E d \in DescUniverse : HostAddImage(d)
    \/ \E drv \in DriverNames, i \in 1..MaxImages : HostRemoveImage(drv, i)
    \/ \E d \in {None} \cup {[some |-> n] : n \in DriverNames} : HostSetDefaultDriver(d)

\* One step of the task of connection c.
Step(c) ==
    \/ Accept(c)
    \/ HandshakeBanner(c)
    \/ HandshakeClientFlags(c)
    \/ OptionMalformed(c)
    \/ UnknownOption(c)
    \/ AbortOption(c)
    \/ ListBegin(c)
    \/ ListUnlock(c)
    \/ ListReply(c)
    \/ ListAck(c)
    \/ ExportNameFind(c)
    \/ ExportNameUnlock(c)
    \/ ExportNameOpen(c)
    \/ ExportNameReply(c)
    \/ RequestRead(c)
    \/ HandleRequest(c)

\* One client at a time against a catalog the host changes at any moment: a
\* shard shares nothing with another shard but the catalog.
Next == Host \/ Step(1)

Spec == Init /\ [][Next]_vars

\* Two clients served at once.  To keep the state space small the catalog
\* holds at most one image, the default driver stays unset, and the second
\* client negotiates NO_ZEROES, sends only List and ExportName options and
\* Read requests of length 0, its socket neither ends nor fails and its task
\* ends only by a panic; the host is big-endian.
ConcScope ==
    /\ NumImages(images) <= 1
    /\ default_driver = None
    /\ pc[2] \notin {"idle", "banner", "client_flags"} => client_flags[2] = 3
    /\ handler[2] \in {"none", "List", "ExportName"}
    /\ result[2] \in {"none", "running", "Panic"}
    /\ pc[2] = "request" => (locals[2].cmd = 0 /\ locals[2].length = 0)
    /\ \A k \in 1..Len(io[2]) : io[2][k].op \in {"read", "write", "flush"}

ConcNext == (Host \/ \E c \in {1, 2} : Step(c)) /\ ConcScope'

ConcInit == Init /\ ~little_endian

SpecConc == ConcInit /\ [][ConcNext]_vars


(* ----------------- the descriptor parser on its own ------------------- *)

\* Longest text given to the parser, and longest field of a descriptor.
MaxTextLen == 4
MaxNameLen == 2

\* Texts over 'a', 'b' and '/'.
ParseTexts == UNION {[1..n -> {97, 98, Slash}] : n \in 0..MaxTextLen}

\* Descriptors with non-empty fields free of '/'.
ParseNames == UNION {[1..n -> {97, 98}] : n \in 1..MaxNameLen}
ParseDescs == [driver_name : ParseNames, name : ParseNames]

\* text.parse::<ImageDesc>() on a text of the client.
ParseText(s) ==
    /\ parsed' = [desc |-> None, text |-> s, out |-> from_str(s)]
    /\ UNCHANGED <<server_vars, list_vars, registry, DRIVERS, process, reg_out>>

\* d.full_name().parse::<ImageDesc>() on a descriptor.
FormatThenParse(d) ==
    /\ parsed' = [desc |-> d, text |-> full_name(d), out |-> from_str(full_name(d))]
    /\ UNCHANGED <<server_vars, list_vars, registry, DRIVERS, process, reg_out>>

ParseNext ==
    \/ \E s \in ParseTexts : ParseText(s)
    \/ \E d \in ParseDescs : FormatThenParse(d)

SpecParse == Init /\ [][ParseNext]_vars

(* ------------------- the driver registries on their own --------------- *)

\* Names a registry is asked for.
FactoryNames == {S_fs, S_mem, S_ram}

\* DriverRegistry::new (as driver_registry() runs it on first access).
DriverRegistryNew ==
    /\ process = "running"
    /\ registry = None
    /\ registry' = DriverRegistry_new
    /\ UNCHANGED <<server_vars, list_vars, parsed, DRIVERS, process, reg_out>>

\* registry.register_driver(constructor)
RegisterDriver(constructor) ==
    /\ process = "running"
    /\ registry # None
    /\ Len(registry.driver_constructors) < MaxDrivers
    /\ registry' = register_driver(registry, constructor)
    /\ UNCHANGED <<server_vars, list_vars, parsed, DRIVERS, process, reg_out>>

\* registry.list_drivers()
ListDrivers ==
    /\ process = "running"
    /\ registry # None
    /\ reg_out' = [impl |-> "driver/mod.rs", op |-> "list_drivers", name |-> <<>>,
                   val |-> list_drivers(registry)]
    /\ UNCHANGED <<server_vars, list_vars, parsed, registry, DRIVERS, process>>

\* registry.get_driver(name, config)
GetDriver(name, config) ==
    /\ process = "running"
    /\ registry # None
    /\ reg_out' = [impl |-> "driver/mod.rs", op |-> "get_driver", name |-> name,
                   val |-> get_driver(registry, name, config)]
    /\ UNCHANGED <<server_vars, list_vars, parsed, registry, DRIVERS, process>>

\* register_driver(name, constructor) of driver.rs.
GlobalRegisterDriver(name, constructor) ==
    /\ process = "running"
    /\ ~DRIVERS.lock
    /\ \/ Len(DRIVERS.drivers) < MaxDrivers
       \/ \E i \in 1..Len(DRIVERS.drivers) : DRIVERS.drivers[i].name = name
    /\ LET r == global_register_driver(DRIVERS, name, constructor)
       IN  /\ DRIVERS' = r.D
           /\ process' = IF r.aborted THEN "aborted" ELSE process
    /\ UNCHANGED <<server_vars, list_vars, parsed, registry, reg_out>>

\* DriverRegistry::new().list_drivers() of driver.rs.
GlobalListDrivers ==
    /\ process = "running"
    /\ ~DRIVERS.lock
    /\ reg_out' = [impl |-> "driver.rs", op |-> "list_drivers", name |-> <<>>,
                   val |-> global_list_drivers(DRIVERS)]
    /\ UNCHANGED <<server_vars, list_vars, parsed, registry, DRIVERS, process>>

\* DriverRegistry::new().get_driver(name, config) of driver.rs; a panic of
\* the constructor leaves the mutex locked.
GlobalGetDriver(name, config) ==
    /\ process = "running"
    /\ ~DRIVERS.lock
    /\ LET v == global_get_driver(DRIVERS, name, config)
       IN  /\ reg_out' = [impl |-> "driver.rs", op |-> "get_driver", name |-> name,
                          val |-> v]
           /\ DRIVERS' = [DRIVERS EXCEPT !.lock = (v = Panic)]
    /\ UNCHANGED <<server_vars, list_vars, parsed, registry, process>>

RegNext ==
    \/ DriverRegistryNew
    \/ \E k \in Constructors : RegisterDriver(k)
    \/ ListDrivers
    \/ \E n \in FactoryNames, cfg \in DriverConfigs : GetDriver(n, cfg)
    \/ \E n \in FactoryNames \cup {LongName}, k \in GlobalConstructors :
           GlobalRegisterDriver(n, k)
    \/ GlobalListDrivers
    \/ \E n \in FactoryNames, cfg \in DriverConfigs : GlobalGetDriver(n, cfg)

SpecReg == Init /\ [][RegNext]_vars

(* ------------------- the intrusive list on its own -------------------- *)

\* The entry n is linked into the list.
Linked(n) == \E k \in 1..Len(list_use.linked) : list_use.linked[k] = n

\* ListHead::init(this).  The list's users call it on the head before any
\* other call and on a node that is in no list.
LinkedListInit(this) ==
    /\ list' = ListHead_init(list, this)
    /\ list_use' = [linked |-> IF this = list_head THEN <<>>
                                ELSE SelectSeq(list_use.linked, LAMBDA n : n # this),
                     op |-> "init",
                     ok |-> /\ list_use.ok
                            /\ ~Linked(this)
                            /\ this = list_head => list_use.linked = <<>>]
    /\ UNCHANGED <<server_vars, parsed, registry, DRIVERS, process, reg_out>>

\* ListHead::add(head, new).  Its users pass an initialised head and a node
\* that is in no list.  (A null head.next is dereferenced: not modelled.)
LinkedListAdd(new) ==
    /\ list.next[list_head] # Null
    /\ list' = ListHead_add(list, list_head, new)
    /\ list_use' = [linked |-> <<new>> \o SelectSeq(list_use.linked, LAMBDA n : n # new),
                     op |-> "add",
                     ok |-> list_use.ok /\ ~Linked(new)]
    /\ UNCHANGED <<server_vars, parsed, registry, DRIVERS, process, reg_out>>

\* ListHead::add_tail(head, new), used as add is.
LinkedListAddTail(new) ==
    /\ list.prev[list_head] # Null
    /\ list' = ListHead_add_tail(list, list_head, new)
    /\ list_use' = [linked |-> Append(SelectSeq(list_use.linked, LAMBDA n : n # new), new),
                     op |-> "add_tail",
                     ok |-> list_use.ok /\ ~Linked(new)]
    /\ UNCHANGED <<server_vars, parsed, registry, DRIVERS, process, reg_out>>

\* ListHead::del(entry).  Its users pass an entry that is in the list.  (A
\* null entry.prev or entry.next is dereferenced: not modelled.)
LinkedListDel(entry) ==
    /\ list.next[entry] # Null
    /\ list.prev[entry] # Null
    /\ list' = ListHead_del(list, entry)
    /\ list_use' = [linked |-> SelectSeq(list_use.linked, LAMBDA n : n # entry),
                     op |-> "del",
                     ok |-> list_use.ok /\ Linked(entry)]
    /\ UNCHANGED <<server_vars, parsed, registry, DRIVERS, process, reg_out>>

LinkedListNext ==
    \/ \E this \in Nodes : LinkedListInit(this)
    \/ \E new \in Entries : LinkedListAdd(new)
    \/ \E new \in Entries : LinkedListAddTail(new)
    \/ \E entry \in Nodes : LinkedListDel(entry)

SpecList == Init /\ [][LinkedListNext]_vars


(* ============================ properties ============================== *)

\* The value of big-endian bytes.
RECURSIVE FromBE(_)
FromBE(b) == IF b = <<>> THEN 0 ELSE 256 * FromBE(SubSeq(b, 1, Len(b) - 1)) + b[Len(b)]

\* The banner a client receives: "NBDMAGIC", "IHAVEOPT", 00 01, then a flush.
BannerLog ==
    << [op |-> "write", bytes |-> <<78, 66, 68, 77, 65, 71, 73, 67>>],
       [op |-> "write", bytes |-> <<73, 72, 65, 86, 69, 79, 80, 84>>],
       [op |-> "write", bytes |-> <<0, 1>>],
       [op |-> "flush", bytes |-> <<>>] >>

\* The log of c is that of a handshake in which the client-flags word was read.
FlagsWordRead(c) ==
    /\ Len(io[c]) = 5
    /\ SubSeq(io[c], 1, 4) = BannerLog
    /\ io[c][5].op = "read"

\* Everything the task of c can change.
ConnState(c) ==
    <<pc[c], image[c], tx_flags[c], client_flags[c], io[c], handler[c], ret[c],
      locals[c], result[c]>>

\* A closed connection does nothing any more: no read, no write, no handler.
ClosedIsFinal(c) == pc[c] = "closed" => ConnState(c)' = ConnState(c)

\* C1: a client-flags word without FIXED_NEWSTYLE closes the connection with
\* the protocol error InvalidData right after that read: nothing but the banner
\* was written, no option handler was called, no option was read, and the
\* closed connection never reads, writes or dispatches again.
C1_NoFixedNewstyleCloses ==
    /\ [](\A c \in Conns :
            (FlagsWordRead(c) /\ io[c][5].bytes[4] % 2 = 0) =>
                /\ pc[c] = "closed"
                /\ result[c] = "InvalidData"
                /\ handler[c] = "none"
                /\ ret[c] = "none"
                /\ client_flags[c] = 0)
    /\ [][\A c \in Conns : ClosedIsFinal(c)]_vars

\* C1 witness: the client answered the banner with NO_ZEROES alone and the
\* connection is closed.
C1_Witness ==
    /\ FlagsWordRead(1)
    /\ io[1][5].bytes = <<0, 0, 0, 2>>
    /\ pc[1] = "closed"


\* C2: nothing is read before the banner (INIT_PASSWD, IHAVEOPT, 00 01, flush)
\* is written; after a client-flags word with FIXED_NEWSTYLE the connection is
\* open in the option phase with exactly that word recorded in the shard; and
\* what is read next is an option header, refused unless it starts with
\* IHAVEOPT.
C2_BannerThenOptions ==
    /\ [](\A c \in Conns :
            /\ pc[c] \in {"idle", "banner"} => io[c] = <<>>
            /\ pc[c] = "client_flags" => io[c] = BannerLog
            /\ (FlagsWordRead(c) /\ io[c][5].bytes[4] % 2 = 1) =>
                  /\ pc[c] = "options"
                  /\ result[c] = "running"
                  /\ client_flags[c] = FromBE(io[c][5].bytes)
                  /\ handler[c] = "none")
    /\ [][\A c \in Conns :
            (pc[c] = "options" /\ io'[c] # io[c]) =>
                /\ io'[c][1].op \in {"read", "read_eof"}
                /\ io'[c][1].op = "read" => Len(io'[c][1].bytes) = 8
                /\ (io'[c][1].op = "read"
                      /\ io'[c][1].bytes # <<73, 72, 65, 86, 69, 79, 80, 84>>) =>
                      /\ Len(io'[c]) = 1
                      /\ pc'[c] = "closed"
                      /\ result'[c] = "InvalidData"]_vars

\* C2 witness: a client answered FIXED_NEWSTYLE | NO_ZEROES and is in the
\* option phase.
C2_Witness ==
    /\ FlagsWordRead(1)
    /\ io[1][5].bytes = <<0, 0, 0, 3>>
    /\ pc[1] = "options"
    /\ client_flags[1] = 3

\* The log of c starts with an option header: IHAVEOPT, option, data length.
OptHeaderRead(c) ==
    /\ Len(io[c]) >= 3
    /\ io[c][1] = [op |-> "read", bytes |-> <<73, 72, 65, 86, 69, 79, 80, 84>>]
    /\ io[c][2].op = "read"
    /\ io[c][3].op = "read"

\* The option code and the data length of that header.
OptOf(c) == FromBE(io[c][2].bytes)
DataLenOf(c) == FromBE(io[c][3].bytes)

\* What was logged after the four reads of an option.
Replies(c) == SubSeq(io[c], 5, Len(io[c]))

\* The magic every generic option reply starts with: 00 03 e8 89 04 55 65 a9.
ReplyMagicWrite == [op |-> "write", bytes |-> <<0, 3, 232, 137, 4, 85, 101, 169>>]

\* C3: a connection is in the transmission phase only after ExportName
\* returned End with the image stored, and what the handler wrote is exactly
\* the 8-byte size, the 2-byte tx_flags and, iff the client flags lack
\* NO_ZEROES, 124 zero bytes (no generic option reply); what is read next is a
\* request header, refused unless it starts with NBD_REQUEST_MAGIC.
C3_ExportNameReply ==
    /\ [](\A c \in Conns :
            /\ ret[c] = "End" =>
                  /\ handler[c] = "ExportName"
                  /\ pc[c] \in {"transmission", "request", "closed"}
            /\ pc[c] = "transmission" =>
                  /\ ret[c] = "End"
                  /\ image[c] # None
                  /\ OptHeaderRead(c)
                  /\ OptOf(c) = 1
                  /\ Len(io[c]) = IF (client_flags[c] \div 2) % 2 = 1 THEN 6 ELSE 7
                  /\ io[c][5].op = "write"
                  /\ Len(io[c][5].bytes) = 8
                  /\ FromBE(io[c][5].bytes) = image[c].size
                  /\ io[c][6].op = "write"
                  /\ Len(io[c][6].bytes) = 2
                  /\ FromBE(io[c][6].bytes) = tx_flags[c]
                  /\ Len(io[c]) = 7 =>
                        /\ io[c][7].op = "write"
                        /\ Len(io[c][7].bytes) = 124
                        /\ \A i \in 1..124 : io[c][7].bytes[i] = 0)
    /\ [][\A c \in Conns :
            (pc[c] = "transmission" /\ io'[c] # io[c]) =>
                /\ io'[c][1].op \in {"read", "read_eof"}
                /\ io'[c][1].op = "read" => Len(io'[c][1].bytes) = 4
                /\ (io'[c][1].op = "read" /\ io'[c][1].bytes # <<37, 96, 149, 19>>) =>
                      /\ Len(io'[c]) = 1
                      /\ pc'[c] = "closed"
                      /\ result'[c] = "InvalidData"]_vars

\* C3 witness: ExportName succeeded for a client without NO_ZEROES: the image
\* of 1 MiB is stored and the 124 zero bytes were written.
C3_Witness ==
    /\ pc[1] = "transmission"
    /\ client_flags[1] = 1
    /\ image[1] # None
    /\ image[1].size = 1048576
    /\ Len(io[1]) = 7

\* C4 (the claim as stated): every descriptor in the catalog is found again
\* by find_image under its full name "<image_name>/<driver_name>".
C4_ListedNamesAreFound ==
    \A order \in KeyOrders :
        \A i \in 1..Len(list_images(images, order)) :
            LET d == list_images(images, order)[i].desc
                f == find_image(images, order, full_name(d))
            IN  /\ f # None
                /\ f.desc = d


RECURSIVE CatalogSize(_, _)
\* The number of descriptors the catalog st holds under the drivers in D.
CatalogSize(st, D) ==
    IF D = {} THEN 0
    ELSE LET d == CHOOSE x \in D : TRUE
         IN  Len(st[d]) + CatalogSize(st, D \ {d})

\* The k-th generic reply written for the option of c is a Server reply that
\* carries `name` between a 4-byte length and 4 zero bytes.
IsServerReply(c, k, name) ==
    LET at == 4 + 5 * (k - 1)
    IN  /\ io[c][at + 1] = ReplyMagicWrite
        /\ io[c][at + 2] = [op |-> "write", bytes |-> <<0, 0, 0, 3>>]
        /\ io[c][at + 3] = [op |-> "write", bytes |-> <<0, 0, 0, 2>>]
        /\ io[c][at + 4].op = "write"
        /\ FromBE(io[c][at + 4].bytes) = Len(name) + 8
        /\ io[c][at + 5].op = "write"
        /\ Len(io[c][at + 5].bytes) = Len(name) + 8
        /\ SubSeq(io[c][at + 5].bytes, 5, 4 + Len(name)) = name
        /\ SubSeq(io[c][at + 5].bytes, 5 + Len(name), 8 + Len(name)) = <<0, 0, 0, 0>>

\* C5: a List copies as many names as the catalog holds images at that moment;
\* while it answers, exactly one Server reply per name already passed has been
\* written; and it returns Continue (the connection is in the option phase
\* again) exactly by adding one Ack reply with no payload after the Server
\* reply of the last name.  Only a failing socket write ends it otherwise.
C5_ListReplies ==
    /\ [](\A c \in Conns :
            pc[c] = "list_write" =>
                /\ handler[c] = "List"
                /\ OptHeaderRead(c)
                /\ OptOf(c) = 3
                /\ Len(io[c]) = 4 + 5 * (locals[c].next - 1)
                /\ \A k \in 1..(locals[c].next - 1) :
                       IsServerReply(c, k, locals[c].images[k]))
    /\ [][\A c \in Conns :
            /\ (pc[c] = "options" /\ pc'[c] = "list_locked") =>
                  /\ Len(locals'[c].images) = CatalogSize(images, DriverNames)
                  /\ locals'[c].next = 1
            /\ pc[c] = "list_locked" =>
                  /\ pc'[c] \in {"list_locked", "list_write"}
                  /\ locals'[c] = locals[c]
                  /\ io'[c] = io[c]
            /\ (pc[c] = "list_write" /\ pc'[c] # "list_write") =>
                  \/ /\ pc'[c] = "closed"
                     /\ result'[c] = "IoError"
                  \/ /\ pc'[c] = "options"
                     /\ ret'[c] = "Continue"
                     /\ locals[c].next = Len(locals[c].images) + 1
                     /\ io'[c] = io[c] \o
                          << ReplyMagicWrite,
                             [op |-> "write", bytes |-> <<0, 0, 0, 3>>],
                             [op |-> "write", bytes |-> <<0, 0, 0, 1>>],
                             [op |-> "write", bytes |-> <<0, 0, 0, 0>>] >>]_vars

\* C5 witness: a List of a catalog of two images has been answered: two Server
\* replies and the Ack are in the log and the option phase goes on.
C5_Witness ==
    /\ pc[1] = "options"
    /\ handler[1] = "List"
    /\ ret[1] = "Continue"
    /\ Len(io[1]) = 4 + 5 * 2 + 4

\* The text "unknown option <n>" for the option codes without a handler.
UnknownText ==
    [n \in 4..11 |->
        <<117, 110, 107, 110, 111, 119, 110, 32, 111, 112, 116, 105, 111, 110, 32>>
        \o (IF n < 10 THEN <<48 + n>> ELSE <<49, 48 + (n - 10)>>)]

\* C6: an option header with a code in 4..11 is answered by the unknown-option
\* handler alone, the shard's image and flags unchanged; when the handler has
\* returned Continue the connection is in the option phase and what was
\* written is one reply: the magic, the option code echoed, -1 (ErrUnsup), the
\* length of the text and the text "unknown option <n>".
C6_UnknownOptionReply ==
    /\ [](\A c \in Conns :
            (handler[c] = "Unknown" /\ ret[c] = "Continue") =>
                /\ pc[c] = "options"
                /\ result[c] = "running"
                /\ OptHeaderRead(c)
                /\ OptOf(c) \in 4..11
                /\ Len(io[c]) = 9
                /\ io[c][5] = ReplyMagicWrite
                /\ io[c][6] = [op |-> "write", bytes |-> io[c][2].bytes]
                /\ io[c][7] = [op |-> "write", bytes |-> <<255, 255, 255, 255>>]
                /\ io[c][8].op = "write"
                /\ Len(io[c][8].bytes) = 4
                /\ FromBE(io[c][8].bytes) = Len(UnknownText[OptOf(c)])
                /\ io[c][9] = [op |-> "write", bytes |-> UnknownText[OptOf(c)]])
    /\ [][\A c \in Conns :
            (/\ pc[c] = "options"
             /\ Len(io'[c]) >= 4
             /\ io'[c] # io[c]
             /\ io'[c][4].op = "read"
             /\ FromBE(io'[c][2].bytes) \in 4..11) =>
                /\ handler'[c] = "Unknown"
                /\ <<image[c], tx_flags[c], client_flags[c]>>'
                     = <<image[c], tx_flags[c], client_flags[c]>>
                /\ \/ /\ pc'[c] = "options"
                      /\ ret'[c] = "Continue"
                   \/ /\ pc'[c] = "closed"
                      /\ result'[c] = "IoError"]_vars

\* C6 witness: ExtendedHeaders (11) was answered "unknown option 11".
C6_Witness ==
    /\ handler[1] = "Unknown"
    /\ ret[1] = "Continue"
    /\ Len(io[1]) = 9
    /\ io[1][2].bytes = <<0, 0, 0, 11>>
    /\ io[1][9].bytes[Len(io[1][9].bytes)] = 49


\* C7: an option header announcing more than 4096 bytes of data closes the
\* connection with InvalidData right after the length is read: the data is not
\* read, no handler is looked up and nothing is written; with a length of at
\* most 4096 (4096 included) the data read has that length and a handler runs.
C7_OversizeOptionRefused ==
    \A c \in Conns :
        OptHeaderRead(c) =>
            IF DataLenOf(c) > 4096
            THEN /\ Len(io[c]) = 3
                 /\ pc[c] = "closed"
                 /\ result[c] = "InvalidData"
                 /\ handler[c] = "none"
                 /\ ret[c] = "none"
            ELSE /\ Len(io[c]) >= 4
                 /\ io[c][4].op = "read" =>
                       /\ Len(io[c][4].bytes) = DataLenOf(c)
                       /\ handler[c] # "none"

\* C7 witness: a header announcing 4097 bytes was read and the connection is
\* closed.
C7_Witness ==
    /\ OptHeaderRead(1)
    /\ io[1][3].bytes = <<0, 0, 16, 1>>
    /\ pc[1] = "closed"

\* An option with exactly 4096 bytes of data was read and answered.
C7_MaxLenDispatched ==
    /\ OptHeaderRead(1)
    /\ io[1][3].bytes = <<0, 0, 16, 0>>
    /\ Len(io[1]) > 4
    /\ handler[1] = "Unknown"
    /\ ret[1] = "Continue"

\* C8: once the Abort handler has been dispatched the connection is closed and
\* stays closed (nothing more is read, the transmission phase is never
\* entered); when the handler returned, what it wrote is exactly one reply:
\* the magic, option 2, reply 1 (Ack), data length 0.
C8_AbortAcksAndCloses ==
    /\ [](\A c \in Conns :
            /\ handler[c] = "Abort" =>
                  /\ pc[c] = "closed"
                  /\ OptHeaderRead(c)
                  /\ OptOf(c) = 2
                  /\ image[c] = None
            /\ ret[c] = "Abort" =>
                  /\ handler[c] = "Abort"
                  /\ Replies(c) =
                        << ReplyMagicWrite,
                           [op |-> "write", bytes |-> <<0, 0, 0, 2>>],
                           [op |-> "write", bytes |-> <<0, 0, 0, 1>>],
                           [op |-> "write", bytes |-> <<0, 0, 0, 0>>] >>)
    /\ [][\A c \in Conns :
            /\ pc[c] = "closed" => ConnState(c)' = ConnState(c)
            /\ (/\ pc[c] = "options"
                /\ Len(io'[c]) >= 4
                /\ io'[c] # io[c]
                /\ io'[c][4].op = "read"
                /\ FromBE(io'[c][2].bytes) = 2) => handler'[c] = "Abort"]_vars

\* C8 witness: an Abort was acknowledged and the connection is closed.
C8_Witness ==
    /\ handler[1] = "Abort"
    /\ ret[1] = "Abort"
    /\ pc[1] = "closed"
    /\ Len(io[1]) = 8

\* C9 (the claim as stated): when a handler returned Abort the task does not
\* end with an error: its outcome differs from that of a protocol error.
C9_AbortIsNotAnError ==
    \A c \in Conns :
        ret[c] = "Abort" =>
            result[c] \notin {"InvalidData", "InvalidInput", "UnexpectedEof", "IoError",
                              "Panic"}

\* The payload is the text "<driver_name>/<name>" of a descriptor the catalog
\* st holds.
NamesStored(st, payload) ==
    \E drv \in DriverNames : \E i \in 1..Len(st[drv]) :
        payload = st[drv][i].driver_name \o <<47>> \o st[drv][i].name

RequestHeaderRead(c) ==
    /\ Len(io[c]) >= 6
    /\ io[c][1] = [op |-> "read", bytes |-> <<37, 96, 149, 19>>]
    /\ \A k \in 2..6 : io[c][k].op = "read"

\* The command code of the request header in the log of c.
CmdOf(c) == FromBE(io[c][3].bytes)

\* C11 (the claim as stated): a connection closed after a well-formed Disc
\* request (command 2) has ended cleanly: its task returned success.
C11_DiscEndsCleanly ==
    \A c \in Conns :
        (RequestHeaderRead(c) /\ CmdOf(c) = 2 /\ pc[c] = "closed") => result[c] = "Ok"

\* C13 (the claim as stated): a well-formed Cache, BlockStatus or Resize
\* request (commands 5, 7, 8) does not end the connection.
C13_UnsupportedCommandKeepsTransmission ==
    \A c \in Conns :
        (RequestHeaderRead(c) /\ CmdOf(c) \in {5, 7, 8}) => pc[c] # "closed"

\* The phase of connection c in the state machine of the connection.
Phase(c) ==
    CASE pc[c] = "idle" -> "NotAccepted"
      [] pc[c] \in {"banner", "client_flags"} -> "HandshakeStart"
      [] pc[c] \in {"options", "list_locked", "list_write", "export_locked",
                   "export_open", "export_reply"} -> "Options"
      [] pc[c] \in {"transmission", "request"} -> "Transmission"
      [] pc[c] = "closed" -> "Closed"

\* The moves between two different phases the state machine allows.
PhaseMoves ==
    { <<"NotAccepted", "HandshakeStart">>,
      <<"HandshakeStart", "Options">>, <<"HandshakeStart", "Closed">>,
      <<"Options", "Transmission">>, <<"Options", "Closed">>,
      <<"Transmission", "Closed">> }

\* C19: the phase of a connection changes only along Handshake-Start ->
\* Options, Handshake-Start -> Closed, Options -> Transmission, Options ->
\* Closed and Transmission -> Closed; Options is left for Transmission only
\* when the handler returned End, the option loop reads a next option only
\* after a handler returned Continue, and Closed is terminal.
C19_PhaseTransitions ==
    [][\A c \in Conns :
          /\ Phase(c)' # Phase(c) => <<Phase(c), Phase(c)'>> \in PhaseMoves
          /\ (Phase(c) = "Options" /\ Phase(c)' = "Transmission") =>
                 /\ ret'[c] = "End"
                 /\ handler'[c] = "ExportName"
          /\ (Phase(c) = "Options" /\ pc'[c] = "options" /\ ConnState(c)' # ConnState(c)) =>
                 ret'[c] = "Continue"
          /\ ClosedIsFinal(c)]_vars

\* C19 witness: a connection that went through the handshake, the options
\* and the transmission phase is closed.
C19_Witness ==
    /\ pc[1] = "closed"
    /\ ret[1] = "End"
    /\ Len(io[1]) >= 1
    /\ io[1][1] = [op |-> "read", bytes |-> <<37, 96, 149, 19>>]

\* The stream of c ended in the middle of what was being read.
ShortRead(c) == Len(io[c]) >= 1 /\ io[c][Len(io[c])].op = "read_eof"

\* The last PDU read from c is malformed: a wrong option magic, an option
\* code outside 1..11, an option data length above 4096, a wrong request
\* magic, or a command code outside 0..8.
MalformedPdu(c) ==
    \/ /\ Len(io[c]) = 1
       /\ io[c][1].op = "read"
       /\ \/ Len(io[c][1].bytes) = 8 /\ io[c][1].bytes # <<73, 72, 65, 86, 69, 79, 80, 84>>
          \/ Len(io[c][1].bytes) = 4 /\ io[c][1].bytes # <<37, 96, 149, 19>>
    \/ /\ Len(io[c]) = 2
       /\ io[c][1] = [op |-> "read", bytes |-> <<73, 72, 65, 86, 69, 79, 80, 84>>]
       /\ io[c][2].op = "read"
       /\ FromBE(io[c][2].bytes) \notin 1..11
    \/ /\ Len(io[c]) >= 3
       /\ io[c][1] = [op |-> "read", bytes |-> <<73, 72, 65, 86, 69, 79, 80, 84>>]
       /\ io[c][2].op = "read"
       /\ io[c][3].op = "read"
       /\ FromBE(io[c][3].bytes) > 4096
    \/ /\ RequestHeaderRead(c)
       /\ CmdOf(c) \notin 0..8

\* No handler ran for the PDU in the log of c and nothing was written for it.
NothingDispatched(c) ==
    /\ pc[c] = "closed"
    /\ \A k \in 1..Len(io[c]) : io[c][k].op \in {"read", "read_eof"}
       \/ (k <= 4 /\ SubSeq(io[c], 1, 4) = BannerLog)
    /\ Len(io[c]) >= 1 /\ io[c][1].op = "read" /\ Len(io[c][1].bytes) = 8 =>
          handler[c] = "none" /\ ret[c] = "none"

\* C20 (the claim as stated): every codec failure, a short read included,
\* closes the connection with the one error kind InvalidData.
C20_OneErrorKind ==
    \A c \in Conns :
        (ShortRead(c) \/ MalformedPdu(c)) => (pc[c] = "closed" /\ result[c] = "InvalidData")

\* C20 (amended): a malformed PDU closes the connection with InvalidData and
\* a short read closes it with UnexpectedEof; in both cases no handler runs
\* for that PDU and nothing is written for it.
C20_CodecFailureCloses ==
    \A c \in Conns :
        /\ MalformedPdu(c) => (result[c] = "InvalidData" /\ NothingDispatched(c))
        /\ ShortRead(c) => (result[c] = "UnexpectedEof" /\ NothingDispatched(c))

\* C20 witness: the stream ended after the magic of an option header and the
\* connection is closed with UnexpectedEof.
C20_Witness ==
    /\ io[1] = << [op |-> "read", bytes |-> <<73, 72, 65, 86, 69, 79, 80, 84>>],
                  [op |-> "read_eof", bytes |-> <<>>] >>
    /\ pc[1] = "closed"
    /\ result[1] = "UnexpectedEof"

\* A request with the command code 9 was read and the connection is closed.
C20_UnknownCommandRefused ==
    /\ RequestHeaderRead(1)
    /\ CmdOf(1) = 9
    /\ pc[1] = "closed"


\* a is the beginning of b.
IsPrefix(a, b) == Len(a) <= Len(b) /\ SubSeq(b, 1, Len(a)) = a

\* seq is a run of complete option replies, each echoing the option opt: the
\* reply magic, opt, a kind, a data length and, when that is not 0, data of
\* that length.
RECURSIVE RepliesTo(_, _)
RepliesTo(seq, opt) ==
    \/ seq = <<>>
    \/ /\ Len(seq) >= 4
       /\ seq[1] = ReplyMagicWrite
       /\ seq[2] = [op |-> "write", bytes |-> BE(opt, 4)]
       /\ seq[3].op = "write" /\ Len(seq[3].bytes) = 4
       /\ seq[4].op = "write" /\ Len(seq[4].bytes) = 4
       /\ IF FromBE(seq[4].bytes) = 0
          THEN RepliesTo(SubSeq(seq, 5, Len(seq)), opt)
          ELSE /\ Len(seq) >= 5
               /\ seq[5].op = "write"
               /\ Len(seq[5].bytes) = FromBE(seq[4].bytes)
               /\ RepliesTo(SubSeq(seq, 6, Len(seq)), opt)

\* The log of c without the failed write it may end with.
WithoutWriteErr(c) ==
    IF Len(io[c]) >= 1 /\ io[c][Len(io[c])].op = "write_err"
    THEN SubSeq(io[c], 1, Len(io[c]) - 1) ELSE io[c]

\* C12: a connection handles one PDU at a time.  In the log of a PDU every
\* read comes before every write, and the option replies in it all echo the
\* option of the header they follow; the next PDU is read only from the
\* option loop or the transmission loop, after the handler of the previous
\* PDU has returned (Continue or End), so every reply to a PDU is on the wire
\* before the next PDU is read.
C12_OnePduAtATime ==
    /\ [](\A c \in Conns :
            /\ (Len(io[c]) >= 1 /\ io[c][1].op = "read") =>
                  \A j, k \in 1..Len(io[c]) :
                      (j < k /\ io[c][j].op # "read") => io[c][k].op # "read"
            /\ (OptHeaderRead(c) /\ handler[c] \in {"Unknown", "Abort", "List"}) =>
                  /\ Len(WithoutWriteErr(c)) >= 4
                  /\ RepliesTo(SubSeq(WithoutWriteErr(c), 5, Len(WithoutWriteErr(c))),
                               OptOf(c))
            /\ (ret[c] = "Continue" /\ pc[c] = "options") =>
                  LET last == SubSeq(io[c], Len(io[c]) - 3, Len(io[c]))
                  IN  /\ Len(io[c]) >= 8
                      /\ \/ RepliesTo(last, OptOf(c))
                         \/ RepliesTo(SubSeq(io[c], Len(io[c]) - 4, Len(io[c])), OptOf(c)))
    /\ [][\A c \in Conns :
            (io'[c] # io[c] /\ ~IsPrefix(io[c], io'[c])) =>
                /\ pc[c] \in {"options", "transmission"}
                /\ io'[c][1].op \in {"read", "read_eof"}
                /\ handler[c] = "none" \/ ret[c] \in {"Continue", "End"}
                /\ pc[c] = "transmission" => ret[c] = "End"]_vars

\* C12 witness: a request was read after the ExportName option before it was
\* answered and its handler returned End.
C12_Witness ==
    /\ pc[1] = "request"
    /\ RequestHeaderRead(1)
    /\ ret[1] = "End"
    /\ image[1] # None


\* x is an element of the sequence seq.
Has(seq, x) == \E i \in 1..Len(seq) : seq[i] = x

\* No element of seq occurs twice.
NoDuplicate(seq) == \A i, j \in 1..Len(seq) : seq[i] = seq[j] => i = j

\* The number of '/' in the text s.
RECURSIVE Slashes(_)
Slashes(s) == IF s = <<>> THEN 0 ELSE (IF Head(s) = 47 THEN 1 ELSE 0) + Slashes(Tail(s))

\* C14 (the claim as stated): parsing the canonical text of a descriptor with
\* non-empty fields free of '/' gives that descriptor back, field by field.
C14_RoundTrip ==
    (parsed # None /\ parsed.desc # None) =>
        /\ parsed.out # None
        /\ parsed.out.name = parsed.desc.name
        /\ parsed.out.driver_name = parsed.desc.driver_name

\* C15 (the claim as stated): a text parses if and only if it holds exactly
\* one '/' and neither side of it is empty.
C15_ExactlyOneSlash ==
    parsed # None =>
        (parsed.out # None <=>
            /\ Slashes(parsed.text) = 1
            /\ parsed.text[1] # 47
            /\ parsed.text[Len(parsed.text)] # 47)

\* The names of the static DRIVERS of driver.rs are pairwise different.
GlobalNamesUnique == NoDuplicate(global_list_drivers(DRIVERS))

\* C16 (the claim as stated): whatever was registered, the names a registry
\* lists hold no duplicate.
C16_NoDuplicateNames ==
    /\ registry # None => NoDuplicate(list_drivers(registry))
    /\ GlobalNamesUnique

\* C17 (the claim as stated): get_driver for the name of a registered
\* constructor returns a Driver of that name, and None only for a name no
\* registered constructor has.
C17_GetFindsRegistered ==
    [][(reg_out' # reg_out /\ reg_out'.op = "get_driver") =>
          LET names == IF reg_out'.impl = "driver.rs" THEN global_list_drivers(DRIVERS)
                       ELSE list_drivers(registry)
          IN  IF Has(names, reg_out'.name)
              THEN reg_out'.val = [driver |-> reg_out'.name]
              ELSE reg_out'.val = None]_vars

\* get_driver of driver/mod.rs alone does what C17 says.
ModGetFindsRegistered ==
    [][(reg_out' # reg_out /\ reg_out'.op = "get_driver"
                           /\ reg_out'.impl = "driver/mod.rs") =>
          IF Has(list_drivers(registry), reg_out'.name)
          THEN reg_out'.val = [driver |-> reg_out'.name]
          ELSE reg_out'.val = None]_vars

\* C18: whenever a registry can be queried it holds the name "fs": a
\* DriverRegistry that exists, and the static DRIVERS once the process runs
\* main; every list_drivers answer contains "fs".
C18_FsAlwaysRegistered ==
    /\ registry # None => Has(list_drivers(registry), <<102, 115>>)
    /\ Has(global_list_drivers(DRIVERS), <<102, 115>>)
    /\ (reg_out # None /\ reg_out.op = "list_drivers") => Has(reg_out.val, <<102, 115>>)

\* C18 witness: list_drivers of a registry that was given two more
\* constructors answered with three names.
C18_Witness ==
    /\ reg_out # None
    /\ reg_out.op = "list_drivers"
    /\ reg_out.impl = "driver/mod.rs"
    /\ Len(reg_out.val) = 3


\* The number of bytes the read events of the log seq took from the stream.
RECURSIVE BytesRead(_)
BytesRead(seq) ==
    IF seq = <<>> THEN 0
    ELSE (IF Head(seq).op = "read" THEN Len(Head(seq).bytes) ELSE 0) + BytesRead(Tail(seq))

\* C21: a Request the parser hands over was read as a 28-byte header; when
\* its command is Write (1) the parser read exactly `length` more bytes and
\* they are its data, and for every other command it read nothing more and
\* the data is empty.
C21_RequestData ==
    \A c \in Conns :
        pc[c] = "request" =>
            /\ RequestHeaderRead(c)
            /\ BytesRead(SubSeq(io[c], 1, 6)) = 28
            /\ locals[c].cmd = CmdOf(c)
            /\ locals[c].length = FromBE(io[c][6].bytes)
            /\ IF CmdOf(c) = 1
               THEN /\ Len(io[c]) = 7
                    /\ io[c][7].op = "read"
                    /\ Len(io[c][7].bytes) = locals[c].length
                    /\ locals[c].data = io[c][7].bytes
                    /\ BytesRead(io[c]) = 28 + locals[c].length
               ELSE /\ Len(io[c]) = 6
                    /\ locals[c].data = <<>>
                    /\ BytesRead(io[c]) = 28

\* C21 witness: a Write of length 2 was parsed with its two bytes of data.
C21_Witness ==
    /\ pc[1] = "request"
    /\ CmdOf(1) = 1
    /\ locals[1].length = 2
    /\ Len(locals[1].data) = 2

\* A Read of length 2 was parsed: no payload byte was taken.
C21_ReadTakesNoPayload ==
    /\ pc[1] = "request"
    /\ CmdOf(1) = 0
    /\ locals[1].length = 2
    /\ Len(io[1]) = 6

\* The log of c holds the tx_flags word of an ExportName reply.
TxFlagsWritten(c) ==
    /\ handler[c] = "ExportName"
    /\ OptHeaderRead(c)
    /\ Len(io[c]) >= 6
    /\ io[c][5].op = "write"
    /\ io[c][6].op = "write"

\* C23 (the claim as stated): the tx_flags word of an ExportName reply is
\* 0x0045.
C23_TxFlagsAre0x45 ==
    \A c \in Conns : TxFlagsWritten(c) => io[c][6].bytes = <<0, 69>>

\* C23 (amended): the tx_flags of a shard and the tx_flags word of every
\* ExportName reply are HAS_FLAGS | SEND_FLUSH | SEND_TRIM | SEND_WRITE_ZEROES
\* = 0x0001 + 0x0004 + 0x0020 + 0x0040 = 0x0065; the CAN_MULTI_CONN bit
\* (0x0100) is never set.
C23_TxFlagsAre0x65 ==
    \A c \in Conns :
        /\ pc[c] # "idle" => tx_flags[c] = 101
        /\ TxFlagsWritten(c) =>
              /\ io[c][6].bytes = <<0, 101>>
              /\ io[c][6].bytes[1] % 2 = 0

\* C23 witness: an ExportName reply was written to a client that negotiated
\* NO_ZEROES; its second word is 00 65.
C23_Witness ==
    /\ TxFlagsWritten(1)
    /\ Len(io[1]) = 6
    /\ io[1][6].bytes = <<0, 101>>
    /\ pc[1] = "transmission"


\* Where a connection task is suspended at an awaited operation: a socket
\* read or write, or the driver's open.
AwaitPoints ==
    {"banner", "client_flags", "options", "list_write", "export_open", "export_reply",
     "transmission"}

\* C22: the ServerState mutex has at most one holder, and a connection that
\* holds it is inside the statement that copies entries out (List) or looks
\* one up (ExportName): it is never suspended at a socket read, a socket
\* write or a driver call, it is not closed, and its next step, which needs
\* no input from its client, releases the lock.  While it holds the lock it
\* touches no socket and the catalog does not change.
C22_LockNotHeldAcrossAwait ==
    /\ [](/\ Cardinality(state_lock) <= 1
          /\ \A c \in Conns :
                c \in state_lock =>
                    /\ pc[c] \notin AwaitPoints
                    /\ pc[c] \in {"list_locked", "export_locked"}
                    /\ ENABLED (ListUnlock(c) \/ ExportNameUnlock(c)))
    /\ [][\A c \in Conns :
            /\ (c \in state_lock /\ pc'[c] # pc[c]) => state_lock' = {}
            /\ c \in state_lock => (io'[c] = io[c] /\ images' = images)]_vars

\* C22 witness: the first client is stalled in the middle of a List (one name
\* still to be written) and the second connection holds the lock.
C22_Witness ==
    /\ pc[1] = "list_write"
    /\ locals[1].next = 1
    /\ Len(locals[1].images) = 1
    /\ state_lock = {2}


\* C24 (the claim as stated): a connection in the transmission phase holds an
\* image, and a connection whose ExportName handler did not return End (it
\* failed, for whatever reason) has image unset and is not in transmission.
C24_FailedExportNameKeepsImageUnset ==
    \A c \in Conns :
        /\ Phase(c) = "Transmission" => image[c] # None
        /\ (pc[c] = "closed" /\ handler[c] = "ExportName" /\ ret[c] # "End") =>
              image[c] = None

\* C24 (amended): a connection in the transmission phase holds an opened image, the
\* handler that ended its option phase is ExportName and it returned End, and
\* (until the first request replaces the log) the image is the one the
\* payload of that ExportName names.  image is written only by the
\* connection's own ExportName, when drv.open succeeded.  An ExportName that
\* fails before its reply (payload not UTF-8, image not found, drv.open
\* failed) closes the connection with image unset; one whose reply could not
\* be written closes it with the image already stored.  A closed connection
\* stays closed.
C24_TransmissionHasImage ==
    /\ [](\A c \in Conns :
            /\ Phase(c) = "Transmission" =>
                  /\ image[c] # None
                  /\ handler[c] = "ExportName"
                  /\ ret[c] = "End"
            /\ pc[c] = "transmission" =>
                  /\ OptHeaderRead(c)
                  /\ OptOf(c) = 1
                  /\ image[c].desc = from_str(io[c][4].bytes)
            /\ (/\ pc[c] = "closed"
                /\ handler[c] = "ExportName"
                /\ OptHeaderRead(c)
                /\ Len(io[c]) = 4) =>
                  /\ image[c] = None
                  /\ ret[c] = "none"
                  /\ result[c] \in {"InvalidInput", "InvalidData", "IoError", "Panic"}
            /\ (/\ pc[c] = "closed"
                /\ handler[c] = "ExportName"
                /\ ret[c] # "End"
                /\ image[c] # None) =>
                  /\ result[c] = "IoError"
                  /\ io[c][Len(io[c])].op = "write_err")
    /\ [][\A c \in Conns :
            /\ image'[c] # image[c] =>
                  /\ pc[c] = "export_open"
                  /\ handler[c] = "ExportName"
                  /\ pc'[c] = "export_reply"
                  /\ image'[c].desc = locals[c].desc
            /\ (pc[c] \in {"export_locked", "export_open"} /\ pc'[c] = "closed") =>
                  /\ image'[c] = None
                  /\ io'[c] = io[c]
            /\ (pc[c] = "options" /\ handler'[c] = "ExportName" /\ pc'[c] = "closed") =>
                  image'[c] = None
            /\ (image[c] = None /\ image'[c] = None) => Phase(c)' # "Transmission"
            /\ pc[c] = "closed" => pc'[c] = "closed"]_vars

\* C24 witness: a request was parsed on a connection whose ExportName opened
\* an image of the driver "mem".
C24_Witness ==
    /\ pc[1] = "request"
    /\ image[1] # None
    /\ image[1].desc.driver_name = <<109, 101, 109>>
    /\ handler[1] = "ExportName"

\* drv.open failed with an error: the connection is closed, image is unset.
C24_OpenErrorKeepsImageUnset ==
    /\ pc[1] = "closed"
    /\ handler[1] = "ExportName"
    /\ result[1] = "IoError"
    /\ Len(io[1]) = 4
    /\ image[1] = None


\* C25: a step that changes anything of a connection (its position, its
\* shard, its socket log, its handler state) or that takes or releases the
\* lock for a connection leaves the image catalog and the default driver as
\* they were; a step that changes the catalog or the default driver is the
\* host's: it changes no connection and happens with the lock free.
C25_ShardsLeaveServerState ==
    [][/\ ((\E c \in Conns : ConnState(c)' # ConnState(c)) \/ state_lock' # state_lock) =>
            /\ images' = images
            /\ default_driver' = default_driver
       /\ (images' # images \/ default_driver' # default_driver) =>
            /\ \A c \in Conns : ConnState(c)' = ConnState(c)
            /\ state_lock = {}
            /\ state_lock' = {}]_vars

\* C25 witness: with "mem" the default driver a List copied two names under
\* the lock and wrote both replies; the catalog still holds the two images.
C25_Witness ==
    /\ pc[1] = "list_write"
    /\ Len(locals[1].images) = 2
    /\ locals[1].next = 3
    /\ NumImages(images) = 2
    /\ default_driver = [some |-> <<109, 101, 109>>]


\* C26: a step changes the phase, shard, log and handler state of at most one
\* connection; the step that closes a connection (an error return, Abort, a
\* failed socket operation, a panic of its task) changes nothing of any other
\* connection, leaves the catalog alone and leaves the closed connection
\* without the lock; and whatever has happened to the connections before it,
\* the next connection can be accepted.
C26_ConnectionsIndependent ==
    /\ [](\A c \in Conns :
            /\ (pc[c] = "idle" /\ \A d \in Conns : d < c => pc[d] # "idle") =>
                  ENABLED Accept(c)
            /\ pc[c] = "closed" => c \notin state_lock)
    /\ [][\A c \in Conns :
            /\ ConnState(c)' # ConnState(c) =>
                  \A d \in Conns \ {c} : ConnState(d)' = ConnState(d)
            /\ (pc[c] # "closed" /\ pc'[c] = "closed") =>
                  /\ \A d \in Conns \ {c} :
                        /\ Phase(d)' = Phase(d)
                        /\ <<image[d], tx_flags[d], client_flags[d]>>'
                             = <<image[d], tx_flags[d], client_flags[d]>>
                  /\ images' = images
                  /\ state_lock' \subseteq state_lock \ {c}]_vars

\* C26 witness: the task of the first connection panicked; the second
\* connection has selected an export since and is in the transmission phase.
C26_Witness ==
    /\ pc[1] = "closed"
    /\ result[1] = "Panic"
    /\ pc[2] = "transmission"
    /\ image[2] # None
    /\ tx_flags[2] = 101

\* The first connection was closed by Abort while the second is in the middle
\* of a List.
C26_AbortBesideList ==
    /\ pc[1] = "closed"
    /\ handler[1] = "Abort"
    /\ pc[2] = "list_write"


\* The names a List can show: "<name>/<driver_name>" of every descriptor the
\* host can export.
ListedNames == {d.name \o <<47>> \o d.driver_name : d \in DescUniverse}

\* How often the text x is in the sequence names.
Count(names, x) == Cardinality({k \in 1..Len(names) : names[k] = x})

\* How many descriptors stored in st are listed as x.
Stored(st, x) ==
    Cardinality({e \in DriverNames \X (1..MaxImages) :
                    /\ e[2] <= Len(st[e[1]])
                    /\ st[e[1]][e[2]].name \o <<47>> \o st[e[1]][e[2]].driver_name = x})

\* names holds the listed name of every image of st, each as often as st
\* holds it, and nothing else.
SnapshotOf(names, st) ==
    /\ Len(names) = CatalogSize(st, DriverNames)
    /\ \A k \in 1..Len(names) : names[k] \in ListedNames
    /\ \A x \in ListedNames : Count(names, x) = Stored(st, x)

\* C27: the names a List handler holds when it has taken the lock are the
\* listed names of the catalog of that moment; they stay the same until the
\* handler ends, whatever the host does to the catalog meanwhile; every Server
\* reply written so far carries the name at its position in that copy, and
\* the Ack is written when every name of the copy, and nothing else, has been
\* answered.
C27_ListIsOneSnapshot ==
    /\ [](\A c \in Conns :
            /\ pc[c] = "list_locked" => SnapshotOf(locals[c].images, images)
            /\ pc[c] = "list_write" =>
                  /\ Len(io[c]) = 4 + 5 * (locals[c].next - 1)
                  /\ locals[c].next <= Len(locals[c].images) + 1
                  /\ \A k \in 1..(locals[c].next - 1) :
                        IsServerReply(c, k, locals[c].images[k]))
    /\ [][\A c \in Conns :
            /\ (pc[c] = "options" /\ pc'[c] = "list_locked") =>
                  SnapshotOf(locals'[c].images, images)
            /\ (pc[c] \in {"list_locked", "list_write"}
                  /\ pc'[c] \in {"list_locked", "list_write"}) =>
                  locals'[c].images = locals[c].images
            /\ (pc[c] = "list_write" /\ pc'[c] = "options") =>
                  /\ locals[c].next = Len(locals[c].images) + 1
                  /\ Len(io'[c]) = Len(io[c]) + 4
                  /\ SubSeq(io'[c], 1, Len(io[c])) = io[c]]_vars

\* C27 witness: a List copied two names, one reply is written, and the host
\* has emptied the catalog since: the second reply is still to come.
C27_Witness ==
    /\ pc[1] = "list_write"
    /\ Len(locals[1].images) = 2
    /\ locals[1].next = 2
    /\ NumImages(images) = 0


\* The node n points at two nodes that point back at it.
LinksBack(n) ==
    /\ list.next[n] # Null
    /\ list.prev[n] # Null
    /\ list.prev[list.next[n]] = n
    /\ list.next[list.prev[n]] = n

\* The list is a well-formed ring: the iteration from the head ends, it
\* yields the linked entries (those added at the front before those added at
\* the back, each once), the head and every entry it yields point at
\* neighbours that point back, and empty(head) tells whether no entry is
\* linked.
WellFormed ==
    LET it == ListHead_iter(list, list_head)
    IN  /\ it.ends
        /\ it.items = list_use.linked
        /\ \A j, k \in 1..Len(it.items) : it.items[j] = it.items[k] => j = k
        /\ LinksBack(list_head)
        /\ \A k \in 1..Len(it.items) : LinksBack(it.items[k])
        /\ ListHead_empty(list, list_head) <=> list_use.linked = <<>>

\* C28 (the claim as stated): once the head is initialised the list is
\* well-formed after any sequence of init, add, add_tail and del.
C28_WellFormedAfterAnyCalls ==
    list.next[list_head] # Null => WellFormed

\* C28 (amended): once the head is initialised the list is well-formed after
\* any sequence of calls in which init was called on the head only while no
\* entry was linked and on an entry only while it was not linked, add and
\* add_tail were called only with an entry that was not linked, and del only
\* with an entry that was linked.
C28_WellFormedWhenUsedAsMeant ==
    (list_use.ok /\ list.next[list_head] # Null) => WellFormed

\* C28 witness: after adds at the front and at the back and a del, all as
\* meant, two entries are linked: 2 before 3.
C28_Witness ==
    /\ list_use.ok
    /\ list_use.op = "del"
    /\ list_use.linked = <<2, 3>>
    /\ list.next[1] = 1
    /\ ListHead_iter(list, list_head).items = <<2, 3>>

\* Every entry is linked: the iteration yields three.
C28_FullList ==
    /\ list_use.ok
    /\ Len(ListHead_iter(list, list_head).items) = 3
    /\ list_use.op = "add_tail"

====
